---- MODULE Spec2Model ----
(***************************************************************************)
(* Model of the cache layer of the analytics platform: the Redis backend   *)
(* as seen through redis-py, the read-through decorator `cached`,          *)
(* CacheManager, the invalidation strategies, the cache warmer and the     *)
(* CACHE_KEYS key templates.                                               *)
(*                                                                         *)
(* Strings that are matched against glob patterns (cache keys, patterns)   *)
(* are sequences of atoms; an atom is a run of characters that no pattern  *)
(* splits ("price", ":", "bitcoin", one digit of a user id, ...).  Stored  *)
(* payloads (JSON text, raw bytes) are plain strings.                      *)
(***************************************************************************)
EXTENDS Integers, Sequences, FiniteSets, TLC

\* store: the Redis keyspace, key -> [val, ttl] for the keys present
\* op:    the last completed operation, its inputs and what it returned
\* calls: call counter of the stub computation wrapped by `cached`
VARIABLES store, op, calls

vars == <<store, op, calls>>

(***************************************************************************)
(* Bounds                                                                  *)
(***************************************************************************)
\* invocations of the wrapped stub that are counted
MaxCalls == 2
\* a backend fault is injected at one of the calls 1..MaxFailAt of an operation
MaxFailAt == 2
\* keys one SCAN call visits (the COUNT hint of the backend)
ScanCount == 3

(***************************************************************************)
(* Python values.  A value is [ty, v]; record equality is Python's ==      *)
(* on this domain.                                                         *)
(***************************************************************************)
PyNone == [ty |-> "none", v |-> "None"]
PyInt(s) == [ty |-> "int", v |-> s]
PyStr(s) == [ty |-> "str", v |-> s]
PyBytes(s) == [ty |-> "bytes", v |-> s]
PyList(s) == [ty |-> "list", v |-> s]
PyTuple(s) == [ty |-> "tuple", v |-> s]
PyDecimal(s) == [ty |-> "decimal", v |-> s]
PyBool(b) == [ty |-> "bool", v |-> IF b THEN "True" ELSE "False"]

\* values json.loads can produce
JsonNative ==
    {PyNone, PyInt("0"), PyInt("7"), PyStr(""), PyStr("a"), PyStr("1.5"),
     PyStr("b''"), PyStr("b'x'"), PyList("[]")}

\* values handed to the cache by callers
PyValues ==
    {PyInt("0"), PyStr(""), PyStr("a"), PyList("[]"), PyTuple("()"),
     PyDecimal("1.5"), PyBytes(""), PyBytes("x")}

\* Python truthiness of what redis-py's get returns (None or bytes)
Truthy(b) == b # PyNone /\ b.v # ""

\* str(x)
PyToStr(x) ==
    CASE x.ty = "bytes" -> "b'" \o x.v \o "'"
      [] OTHER -> x.v

\* json.dumps(value, default=str): tuples are written as arrays, anything
\* the encoder does not know is written as the JSON string of str(value)
JsonDumps(x) ==
    CASE x.ty = "none" -> "null"
      [] x.ty = "int" -> x.v
      [] x.ty = "str" -> "\"" \o x.v \o "\""
      [] x.ty = "list" -> "[]"
      [] x.ty = "tuple" -> "[]"
      [] OTHER -> "\"" \o PyToStr(x) \o "\""

\* json.loads(text): the JSON value the text denotes, or a decode error
JsonTexts == [t \in {JsonDumps(x) : x \in JsonNative} |->
                 CHOOSE x \in JsonNative : JsonDumps(x) = t]
JsonLoads(text) ==
    IF text \in DOMAIN JsonTexts
    THEN [ok |-> TRUE, val |-> JsonTexts[text]]
    ELSE [ok |-> FALSE, val |-> PyNone]

\* what redis-py accepts as a value without encoding it first
RawEncodable(x) == x.ty \in {"str", "bytes", "int"}

(***************************************************************************)
(* The Redis backend                                                       *)
(***************************************************************************)
\* injected fault: the backend call number `at` raises ("once"), or every
\* call from `at` on raises ("down"); at = 0 is a healthy backend
NoFault == [at |-> 0, mode |-> "once"]
Faults == {NoFault} \cup [at : 1..MaxFailAt, mode : {"once", "down"}]
Fails(fault, i) ==
    /\ fault.at # 0
    /\ \/ fault.mode = "once" /\ i = fault.at
       \/ fault.mode = "down" /\ i >= fault.at

Present(st, k) == k \in DOMAIN st

\* GET: the stored bytes, or None
RedisGet(st, k) == IF Present(st, k) THEN PyBytes(st[k].val) ELSE PyNone

\* a variant of the backend that accepts any expire time
RedisSetexOk_any(ttl) == TRUE
\* SETEX key ttl value: overwrites; rejects a non-positive expire time
RedisSetexOk(ttl) == ttl > 0
RedisSetex(st, k, ttl, val) ==
    [x \in DOMAIN st \cup {k} |->
        IF x = k THEN [val |-> val, ttl |-> ttl] ELSE st[x]]

\* DEL key [key ...]: the keyspace without them
RedisDelete(st, ks) == [x \in DOMAIN st \ ks |-> st[x]]
\* ... and the number of keys that were removed
RedisDeleteCount(st, ks) == Cardinality(ks \cap DOMAIN st)

(***************************************************************************)
(* Cache keys as atom sequences                                            *)
(***************************************************************************)
\* sep.join(parts) for the separator ":"; an empty part adds no character
RECURSIVE JoinParts(_)
JoinParts(parts) ==
    IF parts = <<>> THEN <<>>
    ELSE LET h == IF Head(parts) = "" THEN <<>> ELSE <<Head(parts)>>
         IN  IF Len(parts) = 1 THEN h
             ELSE h \o <<":">> \o JoinParts(Tail(parts))

\* the key_parts loop of cache_key: str(arg) for str/int/float, the comma
\* join of the elements for list/tuple (only empty ones are modelled), and
\* nothing at all for an argument of any other type
RECURSIVE KeyParts(_)
KeyParts(args) ==
    IF args = <<>> THEN <<>>
    ELSE LET a == Head(args)
             p == CASE a.ty \in {"str", "int"} -> <<PyToStr(a)>>
                    [] a.ty \in {"list", "tuple"} -> <<"">>
                    [] OTHER -> <<>>
         IN  p \o KeyParts(Tail(args))

cache_key(args, prefix) ==
    JoinParts((IF prefix # "" THEN <<prefix>> ELSE <<>>) \o KeyParts(args))

(***************************************************************************)
(* The read-through decorator `cached`                                     *)
(***************************************************************************)
\* the result map of a warming cycle before anything was warmed, and a
\* backing store without rows
NoResults ==
    [prices |-> 0, analytics |-> 0, sentiment |-> 0, trending |-> 0,
     market_summary |-> 0]
EmptyDb == [prices |-> {}, analytics |-> {}, sentiment |-> {}]

\* the operation record; every operation fills the fields it has
NoOp ==
    [kind |-> "none", key |-> <<>>, arg |-> PyNone, result |-> PyNone,
     raised |-> FALSE, hit |-> FALSE, invoked |-> 0, rcalls |-> 0,
     count |-> 0, log |-> {}, fn |-> "", mode |-> "", was |-> FALSE,
     stub |-> "", res |-> NoResults, db |-> EmptyDb, args |-> <<>>,
     down |-> {}, fault |-> [at |-> 0, mode |-> "once"], ttl |-> 0]

\* stub computations: a coroutine function or a plain function that returns
\* a fixed value or raises
StubReturns == {PyStr(""), PyStr("a"), PyTuple("()")}
Funcs ==
    [name : {"get_user"}, isAsync : BOOLEAN, raises : {FALSE},
     ret : StubReturns]
    \cup [name : {"get_user"}, isAsync : BOOLEAN, raises : {TRUE},
          ret : {PyNone}]
\* the decorator's parameters (key_builder is left at None)
Decorations == [ttl : {300}, key_prefix : {""}, serialize_json : BOOLEAN]
ArgTuples == {<<>>, <<PyStr("a")>>, <<PyNone>>}

\* lines 86-102: call the function, then store the result best-effort
ComputeAndStore(st, f, d, key, fault, log, rc) ==
    IF f.raises
    THEN [store |-> st, result |-> PyNone, raised |-> TRUE, hit |-> FALSE,
          invoked |-> 1, rcalls |-> rc, log |-> log]
    ELSE LET encodable == d.serialize_json \/ RawEncodable(f.ret)
             value == IF d.serialize_json THEN JsonDumps(f.ret) ELSE f.ret.v
             setOk == encodable /\ ~Fails(fault, rc + 1) /\ RedisSetexOk(d.ttl)
         IN  [store |-> IF setOk THEN RedisSetex(st, key, d.ttl, value) ELSE st,
              result |-> f.ret, raised |-> FALSE, hit |-> FALSE, invoked |-> 1,
              rcalls |-> IF encodable THEN rc + 1 ELSE rc,
              log |-> IF setOk THEN log ELSE log \cup {"Failed to cache result"}]

\* a variant in which a decode error of the cached bytes leaves the wrapper
LookupFailed_propagates(st, f, d, key, fault) ==
    [store |-> st, result |-> PyNone, raised |-> TRUE, hit |-> FALSE,
     invoked |-> 0, rcalls |-> 1, log |-> {}]

\* lines 83-84: an exception of the lookup (the get or json.loads) is logged
\* and the wrapper goes on to call the function
LookupFailed(st, f, d, key, fault) ==
    ComputeAndStore(st, f, d, key, fault, {"Cache lookup failed"}, 1)

\* lines 60-102
async_wrapper(st, f, d, args, withRedis, fault) ==
    IF ~withRedis
    THEN [store |-> st, result |-> IF f.raises THEN PyNone ELSE f.ret,
          raised |-> f.raises, hit |-> FALSE, invoked |-> 1, rcalls |-> 0,
          log |-> {}]
    ELSE LET prefix == IF d.key_prefix # "" THEN d.key_prefix ELSE f.name
             key == cache_key(args, prefix)
             cached_value == RedisGet(st, key)
             decoded == JsonLoads(cached_value.v)
         IN  IF Fails(fault, 1)
             THEN LookupFailed(st, f, d, key, fault)
             ELSE IF Truthy(cached_value)
             THEN IF ~d.serialize_json
                  THEN [store |-> st, result |-> cached_value, raised |-> FALSE,
                        hit |-> TRUE, invoked |-> 0, rcalls |-> 1, log |-> {}]
                  ELSE IF decoded.ok
                  THEN [store |-> st, result |-> decoded.val, raised |-> FALSE,
                        hit |-> TRUE, invoked |-> 0, rcalls |-> 1, log |-> {}]
                  ELSE LookupFailed(st, f, d, key, fault)
             ELSE ComputeAndStore(st, f, d, key, fault, {}, 1)

\* lines 104-107
sync_wrapper(st, f) ==
    [store |-> st, result |-> IF f.raises THEN PyNone ELSE f.ret,
     raised |-> f.raises, hit |-> FALSE, invoked |-> 1, rcalls |-> 0,
     log |-> {}]

\* lines 58-115: the wrapper the decorator returns for func
decorator(st, f, d, args, withRedis, fault) ==
    IF f.isAsync THEN async_wrapper(st, f, d, args, withRedis, fault)
    ELSE sync_wrapper(st, f)

\* the key the wrapper derives (lines 66-71)
WrapperKey(f, d, args) ==
    cache_key(args, IF d.key_prefix # "" THEN d.key_prefix ELSE f.name)

\* one call of a wrapped function
CachedCall ==
    \E f \in Funcs, d \in Decorations, args \in ArgTuples,
       withRedis \in BOOLEAN, fault \in Faults :
        \E r \in {decorator(store, f, d, args, withRedis, fault)},
           key \in {WrapperKey(f, d, args)} :
            /\ calls + r.invoked <= MaxCalls
            /\ store' = r.store
            /\ calls' = calls + r.invoked
            /\ op' = [NoOp EXCEPT !.kind = "cached", !.key = key,
                        !.arg = f.ret, !.result = r.result,
                        !.raised = r.raised, !.hit = r.hit,
                        !.invoked = r.invoked, !.rcalls = r.rcalls,
                        !.log = r.log, !.args = args,
                        !.fn = IF f.isAsync THEN "async" ELSE "sync",
                        !.mode = IF ~withRedis THEN "noredis"
                                 ELSE IF d.serialize_json THEN "json" ELSE "raw",
                        !.was = Present(store, key),
                        !.stub = IF f.raises THEN "raises" ELSE "returns"]


(***************************************************************************)
(* CacheManager and ManualInvalidation.invalidate                          *)
(***************************************************************************)
\* the TTL policy table
CacheConfig ==
    [PRICE_TTL |-> 10, ANALYTICS_TTL |-> 60, SENTIMENT_TTL |-> 300,
     SENTIMENT_TREND_TTL |-> 600, PORTFOLIO_TTL |-> 600,
     PORTFOLIO_PERF_TTL |-> 300, USER_TTL |-> 900, SESSION_TTL |-> 86400,
     TOKEN_TTL |-> 3600, COINS_LIST_TTL |-> 3600,
     MARKET_RANKING_TTL |-> 3600, NEWS_TTL |-> 1800, RATE_LIMIT_TTL |-> 60]

ManagerKeys == {<<"user", ":", "4">>, <<"price", ":", "bitcoin">>}
\* the ttl a caller passes to set: the default, or no lifetime at all
TtlInputs == {0, 300}

\* CacheManager.get
CacheManager_get(st, key, deserialize, fault) ==
    LET value == RedisGet(st, key)
        decoded == JsonLoads(value.v)
    IN  IF Fails(fault, 1)
        THEN [result |-> PyNone, log |-> {"Error getting cache"}]
        ELSE IF Truthy(value)
        THEN IF deserialize
             THEN IF decoded.ok
                  THEN [result |-> decoded.val, log |-> {}]
                  ELSE [result |-> PyNone, log |-> {"Error getting cache"}]
             ELSE [result |-> value, log |-> {}]
        ELSE [result |-> PyNone, log |-> {}]

\* CacheManager.set
CacheManager_set(st, key, value, ttl, serialize, fault) ==
    LET encodable == serialize \/ RawEncodable(value)
        text == IF serialize THEN JsonDumps(value) ELSE value.v
        setOk == encodable /\ ~Fails(fault, 1) /\ RedisSetexOk(ttl)
    IN  IF setOk
        THEN [store |-> RedisSetex(st, key, ttl, text), result |-> PyBool(TRUE),
              log |-> {}]
        ELSE [store |-> st, result |-> PyBool(FALSE),
              log |-> {"Error setting cache"}]

\* CacheManager.delete
CacheManager_delete(st, key, fault) ==
    IF Fails(fault, 1)
    THEN [store |-> st, result |-> PyBool(FALSE),
          log |-> {"Error deleting cache"}]
    ELSE [store |-> RedisDelete(st, {key}), result |-> PyBool(TRUE),
          log |-> {}]

\* ManualInvalidation.invalidate
ManualInvalidation_invalidate(st, key, fault) ==
    LET result == RedisDeleteCount(st, {key})
    IN  IF Fails(fault, 1)
        THEN [store |-> st, result |-> PyBool(FALSE),
              log |-> {"Error invalidating key"}]
        ELSE [store |-> RedisDelete(st, {key}), result |-> PyBool(result # 0),
              log |-> {}]

OneCallFaults == {f \in Faults : f.at <= 1}

\* a set; an expire time the backend refuses is tried on a healthy backend
ManagerSet ==
    \E key \in ManagerKeys, value \in PyValues, ttl \in TtlInputs,
       serialize \in BOOLEAN :
      \E fault \in IF RedisSetexOk(ttl) THEN OneCallFaults ELSE {NoFault} :
        \E r \in {CacheManager_set(store, key, value, ttl, serialize, fault)} :
            /\ store' = r.store
            /\ op' = [NoOp EXCEPT !.kind = "set", !.key = key, !.arg = value,
                        !.result = r.result, !.log = r.log, !.rcalls = 1,
                        !.mode = IF serialize THEN "json" ELSE "raw",
                        !.was = Present(store, key), !.ttl = ttl]
            /\ UNCHANGED calls

ManagerGet ==
    \E key \in ManagerKeys, deserialize \in BOOLEAN, fault \in OneCallFaults :
        \E r \in {CacheManager_get(store, key, deserialize, fault)} :
            /\ op' = [NoOp EXCEPT !.kind = "get", !.key = key,
                        !.result = r.result, !.log = r.log, !.rcalls = 1,
                        !.mode = IF deserialize THEN "json" ELSE "raw",
                        !.was = Present(store, key)]
            /\ UNCHANGED <<store, calls>>

ManagerDelete ==
    \E key \in ManagerKeys, fault \in OneCallFaults :
        \E r \in {CacheManager_delete(store, key, fault)} :
            /\ store' = r.store
            /\ op' = [NoOp EXCEPT !.kind = "delete", !.key = key,
                        !.result = r.result, !.log = r.log, !.rcalls = 1,
                        !.was = Present(store, key)]
            /\ UNCHANGED calls

ManualInvalidate ==
    \E key \in ManagerKeys, fault \in OneCallFaults :
        \E r \in {ManualInvalidation_invalidate(store, key, fault)} :
            /\ store' = r.store
            /\ op' = [NoOp EXCEPT !.kind = "invalidate", !.key = key,
                        !.result = r.result, !.log = r.log, !.rcalls = 1,
                        !.was = Present(store, key)]
            /\ UNCHANGED calls

(***************************************************************************)
(* SentimentStore: the write-through of a saved sentiment score            *)
(***************************************************************************)
\* self.cache_ttl
cache_ttl == 300
SentimentCoins == {"bitcoin"}
SentimentStoreKey(coin_id) == <<"sentiment", ":", coin_id>>
\* the JSON of a score; the fields are not looked at
ScoreJson == "{\"score\": 0}"

\* SentimentStore._cache_sentiment
cache_sentiment(st, coin_id, value, withRedis, fault, rc) ==
    IF ~withRedis
    THEN [store |-> st, result |-> PyBool(FALSE), log |-> {}, rcalls |-> rc]
    ELSE IF Fails(fault, rc + 1) \/ ~RedisSetexOk(cache_ttl)
    THEN [store |-> st, result |-> PyBool(FALSE),
          log |-> {"Error caching sentiment"}, rcalls |-> rc + 1]
    ELSE [store |-> RedisSetex(st, SentimentStoreKey(coin_id), cache_ttl,
                               value),
          result |-> PyBool(TRUE), log |-> {}, rcalls |-> rc + 1]

CacheSentiment ==
    \E coin_id \in SentimentCoins, withRedis \in BOOLEAN,
       fault \in OneCallFaults :
        \E r \in {cache_sentiment(store, coin_id, ScoreJson, withRedis,
                                    fault, 0)} :
            /\ store' = r.store
            /\ op' = [NoOp EXCEPT !.kind = "cache_sentiment",
                        !.key = SentimentStoreKey(coin_id),
                        !.result = r.result, !.log = r.log,
                        !.rcalls = r.rcalls, !.ttl = cache_ttl,
                        !.was = Present(store, SentimentStoreKey(coin_id))]
            /\ UNCHANGED calls

(***************************************************************************)
(* The backend's own steps                                                 *)
(***************************************************************************)
\* natural TTL expiry of an entry
Expire ==
    \E k \in DOMAIN store :
        /\ store' = RedisDelete(store, {k})
        /\ op' = [NoOp EXCEPT !.kind = "expire", !.key = k]
        /\ UNCHANGED calls

\* an entry written by another release of the software: bytes that are not
\* the JSON this release reads
CorruptText == "{"
ForeignWrite ==
    \E k \in {WrapperKey(f, d, a) : f \in Funcs, d \in Decorations,
                                    a \in ArgTuples} :
        /\ store' = RedisSetex(store, k, 300, CorruptText)
        /\ op' = [NoOp EXCEPT !.kind = "foreign", !.key = k]
        /\ UNCHANGED calls

(***************************************************************************)
(* Specifications                                                          *)
(***************************************************************************)
EmptyStore == [k \in {} |-> [val |-> "", ttl |-> 0]]

Init ==
    /\ store = EmptyStore
    /\ op = NoOp
    /\ calls = 0

\* the read-through wrapper over the backend
Next == CachedCall \/ Expire \/ ForeignWrite
Spec == Init /\ [][Next]_vars

\* CacheManager and manual single-key invalidation over the backend
NextManager ==
    \/ ManagerSet \/ ManagerGet \/ ManagerDelete \/ ManualInvalidate
    \/ CacheSentiment \/ Expire
SpecManager == Init /\ [][NextManager]_vars

(***************************************************************************)
(* Properties of the read-through wrapper                                  *)
(***************************************************************************)
\* a call of a wrapped coroutine function made with a backend client, in
\* which no cache operation failed and the computation returned
CleanCachedCall(o) ==
    /\ o.kind = "cached"
    /\ o.fn = "async"
    /\ o.mode \in {"json", "raw"}
    /\ o.log = {}
    /\ ~o.raised

\* C1: miss-then-hit.  A call on a key that is not in the cache invokes the
\* computation exactly once and leaves an entry under the derived key; the
\* call with the same arguments that follows it immediately is a hit and
\* does not invoke the computation.
C1_MissThenHit ==
    [][/\ (CleanCachedCall(op') /\ ~op'.was)
            => (op'.invoked = 1 /\ calls' = calls + 1
                /\ Present(store', op'.key))
       /\ (/\ CleanCachedCall(op) /\ ~op.was
           /\ CleanCachedCall(op')
           /\ op'.key = op.key /\ op'.arg = op.arg /\ op'.mode = op.mode)
            => (op'.hit /\ op'.invoked = 0 /\ calls' = calls)]_vars

\* C2: a cache failure never fails the call.  The wrapper invokes the
\* computation at most once per call, an exception leaves the wrapper only
\* when the computation raised it, and whenever the get, the decoding or the
\* write-through failed the caller still gets the fresh value.
C2_CacheNeverFailsCall ==
    op.kind = "cached" =>
        /\ op.invoked <= 1
        /\ op.raised => (op.stub = "raises" /\ op.invoked = 1)
        /\ (op.log # {} /\ op.stub = "returns")
            => (~op.raised /\ op.invoked = 1 /\ op.result = op.arg)

\* a call that found undecodable bytes, or whose get raised, and whose
\* write-through raised as well, and that returned the fresh value
C2_Witness ==
    /\ op.kind = "cached"
    /\ op.log = {"Cache lookup failed", "Failed to cache result"}
    /\ op.was
    /\ op.result = op.arg
    /\ op.invoked = 1

\* a call of a wrapped coroutine function that went to the cache
KeyedCall(o) == o.kind = "cached" /\ o.fn = "async" /\ o.mode # "noredis"

\* C11: the default key derivation is collision-free.  Two successive calls
\* of wrapped functions that differ in an argument value derive different
\* cache keys, so the later call is never served the entry the earlier one
\* stored.
C11_KeysCollisionFree ==
    [][(KeyedCall(op) /\ KeyedCall(op') /\ op.args # op'.args)
          => (op.key # op'.key /\ ~(op'.hit /\ op.invoked = 1))]_vars

(***************************************************************************)
(* Properties of CacheManager and of manual single-key invalidation        *)
(***************************************************************************)
\* C5: a single-key delete reports whether something was deleted.  Both
\* CacheManager.delete and ManualInvalidation.invalidate return true only
\* when the key was present, return false for a key that is already absent,
\* and never raise.
C5_DeleteReportsDeletion ==
    op.kind \in {"delete", "invalidate"} =>
        /\ ~op.raised
        /\ op.result = PyBool(TRUE) => op.was
        /\ ~op.was => op.result = PyBool(FALSE)

\* values the cache represents without loss: JSON values in JSON mode,
\* byte strings in raw mode
Cacheable(v, mode) ==
    \/ mode = "json" /\ v \in JsonNative
    \/ mode = "raw" /\ v.ty = "bytes"

\* C6: round trip.  A get of a key that immediately follows a successful
\* set of that key to a cacheable value (same serialization mode, backend
\* answering) returns a value equal to the value that was set, falsy values
\* included.
C6_RoundTrip ==
    [][(/\ op.kind = "set" /\ op.result = PyBool(TRUE)
        /\ Cacheable(op.arg, op.mode)
        /\ op'.kind = "get" /\ op'.key = op.key /\ op'.mode = op.mode
        /\ op'.log = {})
            => op'.result = op.arg]_vars

(***************************************************************************)
(* Pattern matching and SCAN                                               *)
(***************************************************************************)
\* glob match of the backend (SCAN ... MATCH pattern): "*" matches any run
\* of characters, every other atom matches itself
RECURSIVE GlobMatch(_, _)
GlobMatch(p, s) ==
    IF p = <<>> THEN s = <<>>
    ELSE IF Head(p) = "*"
    THEN GlobMatch(Tail(p), s) \/ (s # <<>> /\ GlobMatch(p, Tail(s)))
    ELSE s # <<>> /\ Head(s) = Head(p) /\ GlobMatch(Tail(p), Tail(s))

\* the keys of the invalidation scenarios, in the order the backend's hash
\* table holds them
InvalKeyList ==
    << <<"price", ":", "bitcoin">>,
       <<"portfolio_perf", ":", "4", "2", ":", "1">>,
       <<"sentiment", ":", "bitcoin">>,
       <<"analytics", ":", "moving_average", ":", "bitcoin", ":", "20">>,
       <<"user", ":", "4", "2">>,
       <<"portfolio_perf", ":", "4", ":", "1">>,
       <<"portfolio_perf", ":", "4", "2", ":", "2">>,
       <<"session", ":", "s1">> >>
InvalKeys == {InvalKeyList[i] : i \in 1..Len(InvalKeyList)}
\* the keys the cache warmer writes, which share the backend's table
WarmedKeyList ==
    << <<"price", ":", "bitcoin", ":", "latest">>,
       <<"price", ":", "ethereum", ":", "latest">>,
       <<"analytics", ":", "bitcoin", ":", "SMA", ":", "latest">>,
       <<"analytics", ":", "bitcoin", ":", "RSI", ":", "latest">>,
       <<"analytics", ":", "ethereum", ":", "SMA", ":", "latest">>,
       <<"sentiment", ":", "bitcoin", ":", "latest">>,
       <<"sentiment", ":", "ethereum", ":", "latest">>,
       <<"market", ":", "summary", ":", "global">>,
       <<"market", ":", "trending">> >>
KeyTable == InvalKeyList \o WarmedKeyList
TableKeys == {KeyTable[i] : i \in 1..Len(KeyTable)}

\* SCAN walks the table ScanCount slots at a time; cursor 0 starts a scan
\* and is returned again when the table has been walked once
NumCursors == (Len(KeyTable) + ScanCount - 1) \div ScanCount
ScanSlots ==
    [cursor \in 0..(NumCursors - 1) |->
        {KeyTable[i] : i \in {j \in 1..Len(KeyTable) :
            (j - 1) \div ScanCount = cursor}}]

(***************************************************************************)
(* EventBasedInvalidation                                                  *)
(***************************************************************************)
KnownEvents ==
    {"price_update", "sentiment_update", "portfolio_update", "user_update"}
EventTypes == KnownEvents \cup {"coin_delisted"}
CoinIds == {<<"bitcoin">>, <<"ethereum">>}
UserIds == {<<"4">>, <<"4", "2">>}
PortfolioIds == {<<"1">>, <<"2">>}
\* kwargs.get(name) of an attribute the event does not carry
NoAttr == <<"None">>

\* a variant of the price patterns with the analytics segments swapped
PricePatterns_swapped(coin_id) ==
    << <<"price", ":">> \o coin_id,
       <<"analytics", ":">> \o coin_id \o <<":", "*">>,
       <<"portfolio_perf", ":", "*", ":", "*">> >>

\* a variant of the portfolio patterns that covers all portfolios of the user
PortfolioPatterns_wild(user_id, portfolio_id) ==
    << <<"portfolio", ":">> \o user_id \o <<":", "*">>,
       <<"portfolio_perf", ":">> \o user_id \o <<":", "*">> >>

\* the pattern lists of the four handlers
PricePatterns(coin_id) ==
    << <<"price", ":">> \o coin_id,
       <<"analytics", ":", "*", ":">> \o coin_id \o <<":", "*">>,
       <<"portfolio_perf", ":", "*", ":", "*">> >>
SentimentPatterns(coin_id) ==
    << <<"sentiment", ":">> \o coin_id,
       <<"sentiment_trend", ":">> \o coin_id \o <<":", "*">> >>
PortfolioPatterns(user_id, portfolio_id) ==
    << <<"portfolio", ":">> \o user_id \o <<":">> \o portfolio_id,
       <<"portfolio_perf", ":">> \o user_id \o <<":">> \o portfolio_id >>
UserPatterns(user_id) ==
    << <<"user", ":">> \o user_id,
       <<"portfolio", ":">> \o user_id \o <<":", "*">>,
       <<"portfolio_perf", ":">> \o user_id \o <<":", "*">>,
       <<"session", ":", "*", "user_id=">> \o user_id \o <<"*">> >>

\* the keys of the keyspace each pattern of the handlers matches
HandlerPatterns ==
    UNION {{p[i] : i \in 1..Len(p)} :
        p \in {PricePatterns(c) : c \in CoinIds \cup {NoAttr}}
            \cup {SentimentPatterns(c) : c \in CoinIds \cup {NoAttr}}
            \cup {PortfolioPatterns(u, q) : u \in UserIds \cup {NoAttr},
                                           q \in PortfolioIds \cup {NoAttr}}
            \cup {UserPatterns(u) : u \in UserIds \cup {NoAttr}}}
MatchTable ==
    [p \in HandlerPatterns |-> {k \in TableKeys : GlobMatch(p, k)}]
Matches(pattern) ==
    IF pattern \in DOMAIN MatchTable THEN MatchTable[pattern]
    ELSE {k \in TableKeys : GlobMatch(pattern, k)}

\* SCAN cursor MATCH pattern: the matching keys among the slots the call
\* visits, and the next cursor
RedisScan(st, cursor, pattern) ==
    [cursor |-> (cursor + 1) % NumCursors,
     keys |-> ScanSlots[cursor] \cap DOMAIN st \cap Matches(pattern)]

\* a variant of the loop's exit test that leaves after the first batch
LoopDone_first(cursor) == TRUE
\* `if cursor == 0: break`
LoopDone(cursor) == cursor = 0

\* the while loop of _delete_pattern from a cursor on; rc counts the backend
\* calls made so far, failed tells that a call raised
RECURSIVE DeleteLoop(_, _, _, _, _, _)
DeleteLoop(st, pattern, cursor, deleted, fault, rc) ==
    IF Fails(fault, rc + 1)
    THEN [store |-> st, deleted |-> deleted, rcalls |-> rc + 1, failed |-> TRUE]
    ELSE LET scan == RedisScan(st, cursor, pattern)
             rc2 == IF scan.keys # {} THEN rc + 2 ELSE rc + 1
             st2 == RedisDelete(st, scan.keys)
             deleted2 == deleted + RedisDeleteCount(st, scan.keys)
         IN  IF scan.keys # {} /\ Fails(fault, rc + 2)
             THEN [store |-> st, deleted |-> deleted, rcalls |-> rc + 2,
                   failed |-> TRUE]
             ELSE IF LoopDone(scan.cursor)
             THEN [store |-> st2, deleted |-> deleted2, rcalls |-> rc2,
                   failed |-> FALSE]
             ELSE DeleteLoop(st2, pattern, scan.cursor, deleted2, fault, rc2)

\* EventBasedInvalidation._delete_pattern: the count of the loop, or 0 when
\* a backend call raised
delete_pattern(st, pattern, fault, rc) ==
    LET r == DeleteLoop(st, pattern, 0, 0, fault, rc)
    IN  [store |-> r.store, count |-> IF r.failed THEN 0 ELSE r.deleted,
         rcalls |-> r.rcalls,
         log |-> IF r.failed THEN {"Error deleting pattern"} ELSE {}]

\* a variant of the handlers' loop that keeps the last pattern's count
RECURSIVE DeletePatterns_last(_, _, _, _, _, _)
DeletePatterns_last(st, patterns, deleted, fault, rc, log) ==
    IF patterns = <<>>
    THEN [store |-> st, count |-> deleted, rcalls |-> rc, log |-> log]
    ELSE LET r == delete_pattern(st, Head(patterns), fault, rc)
         IN  DeletePatterns_last(r.store, Tail(patterns), r.count,
                                 fault, r.rcalls, log \cup r.log)

\* `for pattern in patterns: deleted += await self._delete_pattern(pattern)`
RECURSIVE DeletePatterns(_, _, _, _, _, _)
DeletePatterns(st, patterns, deleted, fault, rc, log) ==
    IF patterns = <<>>
    THEN [store |-> st, count |-> deleted, rcalls |-> rc, log |-> log]
    ELSE LET r == delete_pattern(st, Head(patterns), fault, rc)
         IN  DeletePatterns(r.store, Tail(patterns), deleted + r.count,
                            fault, r.rcalls, log \cup r.log)

invalidate_price_update(st, coin_id, fault) ==
    DeletePatterns(st, PricePatterns(coin_id), 0, fault, 0, {})
invalidate_sentiment_update(st, coin_id, fault) ==
    DeletePatterns(st, SentimentPatterns(coin_id), 0, fault, 0, {})
invalidate_portfolio_update(st, user_id, portfolio_id, fault) ==
    DeletePatterns(st, PortfolioPatterns(user_id, portfolio_id), 0, fault, 0, {})
invalidate_user_update(st, user_id, fault) ==
    DeletePatterns(st, UserPatterns(user_id), 0, fault, 0, {})

\* the events dispatched: each carries the attributes of its type
Events ==
    [type : {"price_update", "sentiment_update"}, coin_id : CoinIds,
     user_id : {NoAttr}, portfolio_id : {NoAttr}]
    \cup [type : {"portfolio_update"}, coin_id : {NoAttr},
          user_id : UserIds, portfolio_id : PortfolioIds]
    \cup [type : {"user_update"}, coin_id : {NoAttr},
          user_id : UserIds, portfolio_id : {NoAttr}]
    \cup [type : EventTypes \ KnownEvents, coin_id : CoinIds,
          user_id : {NoAttr}, portfolio_id : {NoAttr}]

\* a variant of the dispatcher whose last branch is an `else`
EventInvalidate_else(st, event_type, kw, fault) ==
    CASE event_type = "price_update" ->
            invalidate_price_update(st, kw.coin_id, fault)
      [] event_type = "sentiment_update" ->
            invalidate_sentiment_update(st, kw.coin_id, fault)
      [] event_type = "portfolio_update" ->
            invalidate_portfolio_update(st, kw.user_id, kw.portfolio_id, fault)
      [] OTHER -> invalidate_user_update(st, kw.user_id, fault)

\* EventBasedInvalidation.invalidate(event_type, **kwargs)
EventInvalidate(st, event_type, kw, fault) ==
    CASE event_type = "price_update" ->
            invalidate_price_update(st, kw.coin_id, fault)
      [] event_type = "sentiment_update" ->
            invalidate_sentiment_update(st, kw.coin_id, fault)
      [] event_type = "portfolio_update" ->
            invalidate_portfolio_update(st, kw.user_id, kw.portfolio_id, fault)
      [] event_type = "user_update" ->
            invalidate_user_update(st, kw.user_id, fault)
      [] OTHER -> [store |-> st, count |-> 0, rcalls |-> 0,
                   log |-> {"Unknown event type"}]

\* the identifying attribute of an event, as recorded in op.key
EventSubject(event_type, kw) ==
    CASE event_type \in {"price_update", "sentiment_update"} -> kw.coin_id
      [] event_type = "portfolio_update" ->
            kw.user_id \o <<"/">> \o kw.portfolio_id
      [] OTHER -> kw.user_id

\* an event is dispatched to the event-driven strategy
DispatchEvent ==
    \E kw \in Events, fault \in Faults :
        \E r \in {EventInvalidate(store, kw.type, kw, fault)} :
            /\ store' = r.store
            /\ op' = [NoOp EXCEPT !.kind = "event", !.fn = kw.type,
                        !.key = EventSubject(kw.type, kw), !.args = kw,
                        !.count = r.count, !.rcalls = r.rcalls,
                        !.log = r.log]
            /\ UNCHANGED calls

\* some component writes an entry through the adapter
SeedValue == "{}"
Seed ==
    \E k \in InvalKeys :
        /\ ~Present(store, k)
        /\ store' = RedisSetex(store, k, 300, SeedValue)
        /\ op' = [NoOp EXCEPT !.kind = "seed", !.key = k]
        /\ UNCHANGED calls

NextInval == DispatchEvent \/ Seed
SpecInval == Init /\ [][NextInval]_vars

(***************************************************************************)
(* Properties of event-driven invalidation                                 *)
(***************************************************************************)
\* the keys of a keyspace that match a pattern
Matching(st, pattern) == {k \in DOMAIN st : GlobMatch(pattern, k)}

\* an event of the given type whose dispatch made no failing backend call
CleanEvent(o, type) == o.kind = "event" /\ o.fn = type /\ o.log = {}

\* C3: after a price_update event for coin c has been dispatched (backend
\* answering, no other writer) the cache holds no key price:c and no key
\* matching analytics:*:c:*, and a sentiment:c entry that was present
\* before is still present, unchanged.
C3_PriceUpdateInvalidates ==
    [][CleanEvent(op', "price_update") =>
        LET c == op'.key
            sentiment == <<"sentiment", ":">> \o c
        IN  /\ ~Present(store', <<"price", ":">> \o c)
            /\ Matching(store', <<"analytics", ":", "*", ":">> \o c
                                    \o <<":", "*">>) = {}
            /\ Present(store, sentiment) =>
                (Present(store', sentiment)
                 /\ store'[sentiment] = store[sentiment])]_vars

\* a price_update(bitcoin) that removed the price key, the analytics key and
\* the three portfolio_perf keys while sentiment:bitcoin stayed
C3_Witness ==
    /\ CleanEvent(op, "price_update")
    /\ op.key = <<"bitcoin">>
    /\ op.count = 5
    /\ Present(store, <<"sentiment", ":", "bitcoin">>)

\* C4: invalidate_user_update(u) returns the total number of keys it
\* removed over all its patterns, which is at least the number of
\* portfolio_perf:u:* keys present beforehand, and afterwards user:u and
\* every portfolio_perf:u:* key are absent (backend answering).
C4_UserUpdateCount ==
    [][CleanEvent(op', "user_update") =>
        LET u == op'.key
            perf == <<"portfolio_perf", ":">> \o u \o <<":", "*">>
        IN  /\ op'.count >= Cardinality(Matching(store, perf))
            /\ op'.count = Cardinality(DOMAIN store)
                            - Cardinality(DOMAIN store')
            /\ ~Present(store', <<"user", ":">> \o u)
            /\ Matching(store', perf) = {}]_vars

\* user_update(42) that removed user:42 and both portfolio_perf:42:* keys
\* and left the key of user 4 in place
C4_Witness ==
    /\ CleanEvent(op, "user_update")
    /\ op.key = <<"4", "2">>
    /\ op.count = 3
    /\ Present(store, <<"portfolio_perf", ":", "4", ":", "1">>)

\* C8: dispatching an event of an unknown type is a no-op: it returns 0,
\* deletes no key, makes no backend call and does not raise.
C8_UnknownEventNoOp ==
    [][(op'.kind = "event" /\ op'.fn \notin KnownEvents) =>
        /\ store' = store
        /\ op'.count = 0
        /\ op'.rcalls = 0
        /\ ~op'.raised]_vars

\* an unknown event was dispatched over a non-empty cache
C8_Witness ==
    /\ op.kind = "event"
    /\ op.fn = "coin_delisted"
    /\ op.log = {"Unknown event type"}
    /\ Cardinality(DOMAIN store) >= 2

\* the session entries of the keyspace, in the key form session:{session_id},
\* and the user each session belongs to
SessionKeys == {k \in InvalKeys : k[1] = "session"}
SessionOwner == [k \in SessionKeys |-> <<"4", "2">>]

\* C16: after a user_update event for user u (backend answering, no other
\* writer) no session key of a session of u is left in the cache, and the
\* session keys of every other user stay in place.
C16_UserUpdateDropsSessions ==
    [][CleanEvent(op', "user_update") =>
        \A k \in SessionKeys :
            /\ SessionOwner[k] = op'.key => ~Present(store', k)
            /\ (SessionOwner[k] # op'.key /\ Present(store, k))
                  => Present(store', k)]_vars

\* the keys an event of the two narrow types may remove
FrameOf(st, kw) ==
    IF kw.type = "portfolio_update"
    THEN {<<"portfolio", ":">> \o kw.user_id \o <<":">> \o kw.portfolio_id,
          <<"portfolio_perf", ":">> \o kw.user_id \o <<":">> \o kw.portfolio_id}
    ELSE {<<"sentiment", ":">> \o kw.coin_id}
         \cup Matching(st, <<"sentiment_trend", ":">> \o kw.coin_id
                               \o <<":", "*">>)

\* C21: frame of the narrow events.  portfolio_update(u, p) removes at most
\* portfolio:u:p and portfolio_perf:u:p, sentiment_update(c) at most
\* sentiment:c and sentiment_trend:c:*; every other key stays with its
\* value, whether or not a backend call failed, and when none failed the
\* keys of the event are gone.
C21_EventFrame ==
    [][(op'.kind = "event"
        /\ op'.fn \in {"portfolio_update", "sentiment_update"}) =>
        LET allowed == FrameOf(store, op'.args)
        IN  /\ DOMAIN store' \subseteq DOMAIN store
            /\ \A k \in DOMAIN store \ allowed :
                  Present(store', k) /\ store'[k] = store[k]
            /\ op'.log = {} => allowed \cap DOMAIN store' = {}]_vars

\* portfolio_update(42, 1) removed portfolio_perf:42:1 and left the other
\* portfolio of user 42 and the portfolio of user 4 in place
C21_Witness ==
    /\ CleanEvent(op, "portfolio_update")
    /\ op.args.user_id = <<"4", "2">> /\ op.args.portfolio_id = <<"1">>
    /\ op.count = 1
    /\ Present(store, <<"portfolio_perf", ":", "4", "2", ":", "2">>)
    /\ Present(store, <<"portfolio_perf", ":", "4", ":", "1">>)

(***************************************************************************)
(* ManualInvalidation (patterns, composites, clear-all) and                *)
(* CacheInvalidationManager                                                *)
(***************************************************************************)
\* backend faults of a manual operation: the first call fails, a call after
\* the first batch fails, or the backend is down
ScanFaults ==
    {NoFault} \cup [at : {1, MaxFailAt + 1}, mode : {"once"}]
    \cup {[at |-> MaxFailAt + 1, mode |-> "down"]}
\* the patterns an operator passes
ManualPatterns ==
    {<<"portfolio_perf", ":", "4", "2", ":", "*">>, <<"price", ":", "*">>,
     <<"news", ":", "*">>}

\* ManualInvalidation.invalidate_pattern (CacheManager.delete_pattern is the
\* same code): the count of the loop, or 0 when a backend call raised
invalidate_pattern(st, pattern, fault) ==
    LET r == DeleteLoop(st, pattern, 0, 0, fault, 0)
    IN  [store |-> r.store, count |-> IF r.failed THEN 0 ELSE r.deleted,
         rcalls |-> r.rcalls, raised |-> FALSE,
         log |-> IF r.failed THEN {"Error invalidating pattern"} ELSE {}]

\* the pattern lists of the two composites
CoinCachePatterns(coin_id) ==
    << <<"price", ":">> \o coin_id,
       <<"analytics", ":", "*", ":">> \o coin_id \o <<":", "*">>,
       <<"sentiment", ":">> \o coin_id,
       <<"sentiment_trend", ":">> \o coin_id \o <<":", "*">>,
       <<"news", ":">> \o coin_id \o <<":", "*">> >>
UserCachePatterns(user_id) ==
    << <<"user", ":">> \o user_id,
       <<"portfolio", ":">> \o user_id \o <<":", "*">>,
       <<"portfolio_perf", ":">> \o user_id \o <<":", "*">> >>

\* the loops of the composites: one scan loop per pattern, written inline
\* without a try; an exception of a backend call leaves the method
RECURSIVE InlineLoops(_, _, _, _, _)
InlineLoops(st, patterns, deleted, fault, rc) ==
    IF patterns = <<>>
    THEN [store |-> st, count |-> deleted, rcalls |-> rc, raised |-> FALSE,
          log |-> {}]
    ELSE LET r == DeleteLoop(st, Head(patterns), 0, deleted, fault, rc)
         IN  IF r.failed
             THEN [store |-> r.store, count |-> 0, rcalls |-> r.rcalls,
                   raised |-> TRUE, log |-> {}]
             ELSE InlineLoops(r.store, Tail(patterns), r.deleted, fault,
                              r.rcalls)

invalidate_coin_caches(st, coin_id, fault) ==
    InlineLoops(st, CoinCachePatterns(coin_id), 0, fault, 0)
invalidate_user_caches(st, user_id, fault) ==
    InlineLoops(st, UserCachePatterns(user_id), 0, fault, 0)

\* ManualInvalidation.clear_all_caches: FLUSHDB; count 1 stands for True
clear_all_caches(st, fault) ==
    IF Fails(fault, 1)
    THEN [store |-> st, count |-> 0, rcalls |-> 1, raised |-> FALSE,
          log |-> {"Error clearing all caches"}]
    ELSE [store |-> EmptyStore, count |-> 1, rcalls |-> 1, raised |-> FALSE,
          log |-> {}]

\* the methods CacheInvalidationManager has for events
ManagerHandlers == {"price_update", "sentiment_update", "portfolio_update"}
\* a handler's result, seen by the caller of a method that did not raise
Returned(r) ==
    [store |-> r.store, count |-> r.count, rcalls |-> r.rcalls,
     raised |-> FALSE, log |-> r.log]
\* CacheInvalidationManager.on_<event_type>(...): the three on_ methods
\* delegate to the event strategy; the attribute lookup of a method the
\* class does not define raises AttributeError
manager_on(st, event_type, kw, fault) ==
    IF event_type \notin ManagerHandlers
    THEN [store |-> st, count |-> 0, rcalls |-> 0, raised |-> TRUE,
          log |-> {}]
    ELSE CASE event_type = "price_update" ->
                Returned(invalidate_price_update(st, kw.coin_id, fault))
           [] event_type = "sentiment_update" ->
                Returned(invalidate_sentiment_update(st, kw.coin_id, fault))
           [] OTHER ->
                Returned(invalidate_portfolio_update(st, kw.user_id,
                                                     kw.portfolio_id, fault))

InvalidatePattern ==
    \E pattern \in ManualPatterns, fault \in ScanFaults :
        \E r \in {invalidate_pattern(store, pattern, fault)} :
            /\ store' = r.store
            /\ op' = [NoOp EXCEPT !.kind = "invalidate_pattern",
                        !.key = pattern, !.count = r.count,
                        !.rcalls = r.rcalls, !.raised = r.raised,
                        !.log = r.log, !.fault = fault]
            /\ UNCHANGED calls

InvalidateCoinCaches ==
    \E coin_id \in CoinIds, fault \in ScanFaults :
        \E r \in {invalidate_coin_caches(store, coin_id, fault)} :
            /\ store' = r.store
            /\ op' = [NoOp EXCEPT !.kind = "invalidate_coin_caches",
                        !.key = coin_id, !.count = r.count,
                        !.rcalls = r.rcalls, !.raised = r.raised,
                        !.log = r.log, !.fault = fault]
            /\ UNCHANGED calls

InvalidateUserCaches ==
    \E user_id \in UserIds, fault \in ScanFaults :
        \E r \in {invalidate_user_caches(store, user_id, fault)} :
            /\ store' = r.store
            /\ op' = [NoOp EXCEPT !.kind = "invalidate_user_caches",
                        !.key = user_id, !.count = r.count,
                        !.rcalls = r.rcalls, !.raised = r.raised,
                        !.log = r.log, !.fault = fault]
            /\ UNCHANGED calls

ClearAllCaches ==
    \E fault \in OneCallFaults :
        \E r \in {clear_all_caches(store, fault)} :
            /\ store' = r.store
            /\ op' = [NoOp EXCEPT !.kind = "clear_all_caches",
                        !.count = r.count, !.rcalls = r.rcalls,
                        !.raised = r.raised, !.log = r.log, !.fault = fault]
            /\ UNCHANGED calls

\* an event of one of the four types is handed to the manager
ManagerEvent ==
    \E kw \in {e \in Events : e.type \in KnownEvents},
       fault \in OneCallFaults :
        \E r \in {manager_on(store, kw.type, kw, fault)} :
            /\ store' = r.store
            /\ op' = [NoOp EXCEPT !.kind = "manager_event", !.fn = kw.type,
                        !.key = EventSubject(kw.type, kw), !.args = kw,
                        !.count = r.count, !.rcalls = r.rcalls,
                        !.raised = r.raised, !.log = r.log, !.fault = fault]
            /\ UNCHANGED calls

NextManual ==
    \/ InvalidatePattern \/ InvalidateCoinCaches \/ InvalidateUserCaches
    \/ ClearAllCaches \/ ManagerEvent \/ Seed
SpecManual == Init /\ [][NextManual]_vars

(***************************************************************************)
(* Properties of manual invalidation and of the manager                    *)
(***************************************************************************)
\* C14: a pattern delete whose backend fails in mid-scan does not raise,
\* makes no further backend call after the failing one, and returns the
\* number of keys it deleted before the failure.
C14_PartialCount ==
    [][(op'.kind = "invalidate_pattern" /\ op'.log # {}) =>
        /\ ~op'.raised
        /\ op'.rcalls = op'.fault.at
        /\ op'.count = Cardinality(DOMAIN store) - Cardinality(DOMAIN store')
      ]_vars

\* the operations of the manual strategy and of the manager
InvalidationKinds ==
    {"event", "invalidate", "invalidate_pattern", "invalidate_coin_caches",
     "invalidate_user_caches", "clear_all_caches"}

\* C15: no invalidation operation raises to its caller, whichever backend
\* call fails: each returns a count or a boolean.
C15_InvalidationNeverRaises ==
    op.kind \in InvalidationKinds => ~op.raised

\* C17: the manager dispatches each of the four event types, and a dispatch
\* through the manager removes the keys and returns the count of the event
\* strategy's handler for that event.
C17_ManagerDispatchesAll ==
    [][op'.kind = "manager_event" =>
        LET direct == EventInvalidate(store, op'.fn, op'.args, op'.fault)
        IN  /\ ~op'.raised
            /\ store' = direct.store
            /\ op'.count = direct.count]_vars

\* C20: the scan loop of a pattern delete ends when the backend returns
\* cursor 0; with the backend answering and no other writer, afterwards no
\* key matching the pattern is left, every other key is untouched, and the
\* count is the number of matching keys there were at the start.
C20_PatternDeleteComplete ==
    [][(op'.kind = "invalidate_pattern" /\ op'.log = {}) =>
        /\ Matching(store', op'.key) = {}
        /\ store' = RedisDelete(store, Matching(store, op'.key))
        /\ op'.count = Cardinality(Matching(store, op'.key))
        /\ op'.rcalls >= NumCursors]_vars

\* a delete of portfolio_perf:42:* that removed both portfolios of user 42,
\* found in two different batches of the scan
C20_Witness ==
    /\ op.kind = "invalidate_pattern" /\ op.log = {}
    /\ op.key = <<"portfolio_perf", ":", "4", "2", ":", "*">>
    /\ op.count = 2
    /\ op.rcalls = NumCursors + 2
    /\ store # EmptyStore

\* the keys a healthy dispatch of an event removes from a keyspace
RemovedByEvent(st, kw) ==
    DOMAIN st \ DOMAIN EventInvalidate(st, kw.type, kw, NoFault).store
\* an event of a type for a subject
EventFor(type, coin_id, user_id) ==
    [type |-> type, coin_id |-> coin_id, user_id |-> user_id,
     portfolio_id |-> NoAttr]

\* C22: the manual composites cover the event patterns.  With the backend
\* answering, invalidate_user_caches(u) removes every key user_update(u)
\* removes and leaves no user, portfolio, portfolio_perf or session key of
\* u; invalidate_coin_caches(c) removes every key of coin c that
\* price_update(c) and sentiment_update(c) remove.
C22_CompositesCoverEvents ==
    [][/\ (op'.kind = "invalidate_user_caches" /\ ~op'.raised) =>
            LET u == op'.key
            IN  /\ RemovedByEvent(store, EventFor("user_update", NoAttr, u))
                      \cap DOMAIN store' = {}
                /\ \A k \in SessionKeys :
                      SessionOwner[k] = u => ~Present(store', k)
       /\ (op'.kind = "invalidate_coin_caches" /\ ~op'.raised) =>
            LET c == op'.key
                byEvents ==
                    RemovedByEvent(store, EventFor("price_update", c, NoAttr))
                    \cup RemovedByEvent(store,
                             EventFor("sentiment_update", c, NoAttr))
            IN  {k \in byEvents : \E n \in 1..Len(k) : <<k[n]>> = c}
                    \cap DOMAIN store' = {}]_vars

(***************************************************************************)
(* A backend command in flight.  The connection pool of RedisClient is     *)
(* built with socket_connect_timeout=5 and without socket_timeout, and the *)
(* cache code awaits each command without a deadline of its own.           *)
(* op.kind is the call in progress, op.fn its outstanding command, op.mode *)
(* the phase of that command, op.stub the behaviour of the backend and     *)
(* op.was tells that the pool holds an established connection.             *)
(***************************************************************************)
\* up: answers; refusing: resets or refuses connections; unreachable: SYNs
\* are dropped; silent: accepts connections and never replies
Behaviours == {"up", "refusing", "unreachable", "silent"}
StallKey == <<"user", ":", "4">>
InitStall ==
    /\ store = EmptyStore
    /\ op = [NoOp EXCEPT !.stub = "up", !.key = StallKey]
    /\ calls = 0

\* the command is handed to the pool: over the pooled connection, or after
\* a connect
Issue(o, command) ==
    [o EXCEPT !.fn = command,
              !.mode = IF o.was THEN "waiting" ELSE "connecting"]
\* the call returns to its caller
Return(o, raised) == [o EXCEPT !.fn = "", !.mode = "returned", !.raised = raised]

Idle(o) == o.mode \in {"", "returned"}
InFlight(o) == o.mode \in {"connecting", "waiting"}

\* a wrapped coroutine is called (cache.py:75: the get is awaited)
StartReadThrough ==
    /\ Idle(op) /\ calls < MaxCalls
    /\ op' = Issue([op EXCEPT !.kind = "read_through", !.hit = FALSE,
                              !.raised = FALSE, !.log = {}], "get")
    /\ calls' = calls + 1
    /\ UNCHANGED store

\* a pattern delete is called (the first scan is awaited)
StartInvalidation ==
    /\ Idle(op) /\ calls < MaxCalls
    /\ op' = Issue([op EXCEPT !.kind = "invalidate", !.hit = FALSE,
                              !.raised = FALSE, !.log = {}], "scan")
    /\ calls' = calls + 1
    /\ UNCHANGED store

\* the TCP connect completes
Connected ==
    /\ op.mode = "connecting" /\ op.stub \in {"up", "silent"}
    /\ op' = [op EXCEPT !.mode = "waiting", !.was = TRUE]
    /\ UNCHANGED <<store, calls>>

\* what the caller does when its command raised: the wrapper logs a failed
\* lookup and goes on to compute and store; a failed setex, scan or delete
\* ends the call, which returns
AfterFailure(o) ==
    IF o.fn = "get"
    THEN Issue([o EXCEPT !.was = FALSE, !.log = @ \cup {"Cache lookup failed"}],
               "setex")
    ELSE Return([o EXCEPT !.was = FALSE, !.log = @ \cup {"failed"}], FALSE)

\* the command raises: the connect is refused or times out after
\* socket_connect_timeout, or the established connection is reset by the
\* peer or given up by the keepalive probes (socket_keepalive=True)
CommandFails ==
    /\ InFlight(op)
    /\ op.stub \in {"refusing", "unreachable"}
    /\ op' = AfterFailure(op)
    /\ UNCHANGED <<store, calls>>

\* the backend replies to the outstanding command and the caller goes on
Reply ==
    /\ op.mode = "waiting" /\ op.stub = "up"
    /\ CASE op.fn = "get" ->
              /\ op' = IF Present(store, op.key)
                       THEN Return([op EXCEPT !.hit = TRUE], FALSE)
                       ELSE Issue(op, "setex")
              /\ UNCHANGED store
         [] op.fn = "setex" ->
              /\ op' = Return(op, FALSE)
              /\ store' = RedisSetex(store, op.key, 300, SeedValue)
         [] op.fn = "scan" ->
              /\ op' = IF Present(store, op.key) THEN Issue(op, "delete")
                       ELSE Return(op, FALSE)
              /\ UNCHANGED store
         [] OTHER ->
              /\ op' = Return(op, FALSE)
              /\ store' = RedisDelete(store, {op.key})
    /\ UNCHANGED calls

\* the backend's behaviour changes
BackendChange ==
    /\ \E b \in Behaviours \ {op.stub} : op' = [op EXCEPT !.stub = b]
    /\ UNCHANGED <<store, calls>>

NextStall ==
    \/ StartReadThrough \/ StartInvalidation \/ Connected \/ CommandFails
    \/ Reply \/ BackendChange
\* a step of a call that the backend's behaviour allows again and again is
\* eventually taken by the event loop; nothing obliges the backend to change
SpecStall ==
    /\ InitStall /\ [][NextStall]_vars
    /\ SF_vars(Connected) /\ SF_vars(CommandFails) /\ SF_vars(Reply)

\* C18: every cache operation is bounded.  A read-through call or an
\* invalidation call that is waiting for the backend eventually returns to
\* its caller, also when the backend never answers.
C18_CallsReturn ==
    (op.kind \in {"read_through", "invalidate"} /\ InFlight(op))
        ~> (op.mode = "returned")

(***************************************************************************)
(* Read-through calls racing with mutations of the backing store, their    *)
(* invalidation events and the passing of time.  store[k].ttl is the       *)
(* remaining lifetime of an entry in seconds.  op.count is the version of  *)
(* the entity in the backing store, op.rcalls the number of committed      *)
(* mutations whose invalidation event is still to be handled, op.args the  *)
(* state of each concurrent read-through call, and calls the number of     *)
(* mutations committed so far.                                             *)
(***************************************************************************)
RaceKey == <<"price", ":", "bitcoin">>
\* the ttl of the decoration of the wrapped function
RaceTtls == {1, 2}
Readers == {1, 2}
\* a call is idle, has missed (cache.py:81), or holds the result it computed
\* from the backing store (cache.py:87)
IdleReader == [pc |-> "idle", val |-> ""]
\* the payload of a version of the entity
VersionText(n) == "v" \o ToString(n)
InitRace ==
    /\ store = EmptyStore
    /\ op = [NoOp EXCEPT !.args = [i \in Readers |-> IdleReader],
                         !.key = RaceKey]
    /\ calls = 0

\* a variant of the backend in which no entry ever expires
Aged_persist(st) == st
\* the keyspace one second later: lifetimes shrink, entries whose lifetime
\* is used up are gone
Aged(st) ==
    [k \in {x \in DOMAIN st : st[x].ttl > 1} |->
        [val |-> st[k].val, ttl |-> st[k].ttl - 1]]

\* an entry that differs from the backing store's current value
Stale(st, version) ==
    \E k \in DOMAIN st : st[k].val # VersionText(version)

\* cache.py:75-81: the get of a call; a hit returns the cached value
ReaderGet ==
    \E i \in Readers :
        /\ op.args[i].pc = "idle"
        /\ op' = [op EXCEPT !.kind = "reader_get",
                    !.hit = Present(store, RaceKey),
                    !.args[i].pc = IF Present(store, RaceKey) THEN "idle"
                                   ELSE "missed"]
        /\ UNCHANGED <<store, calls>>

\* cache.py:87: the computation reads the backing store
ReaderCompute ==
    \E i \in Readers :
        /\ op.args[i].pc = "missed"
        /\ op' = [op EXCEPT !.kind = "reader_compute",
                    !.args[i] = [pc |-> "computed",
                                 val |-> VersionText(op.count)]]
        /\ UNCHANGED <<store, calls>>

\* cache.py:90-102: the result is stored with the ttl and returned
ReaderStore ==
    \E i \in Readers, ttl \in RaceTtls :
        /\ op.args[i].pc = "computed"
        /\ store' = RedisSetex(store, RaceKey, ttl, op.args[i].val)
        /\ op' = [op EXCEPT !.kind = "reader_store", !.ttl = ttl,
                    !.args[i] = IdleReader]
        /\ UNCHANGED calls

\* a mutation of the entity is committed and its event published
Mutate ==
    /\ calls < MaxCalls
    /\ calls' = calls + 1
    /\ op' = [op EXCEPT !.kind = "mutate", !.count = @ + 1, !.rcalls = @ + 1]
    /\ UNCHANGED store

\* the event of a mutation is handled: the entity's key is deleted
HandleEvent ==
    /\ op.rcalls > 0
    /\ store' = RedisDelete(store, Matching(store, RaceKey))
    /\ op' = [op EXCEPT !.kind = "event", !.rcalls = @ - 1]
    /\ UNCHANGED calls

\* one second passes
Tick ==
    /\ store' = Aged(store)
    /\ store' # store
    /\ op' = [op EXCEPT !.kind = "tick",
                !.was = Stale(store, op.count) /\ ~Stale(store', op.count)]
    /\ UNCHANGED calls

NextRace ==
    \/ ReaderGet \/ ReaderCompute \/ ReaderStore \/ Mutate \/ HandleEvent
    \/ Tick
\* time passes; readers, writers and event handlers run at will
SpecRace == InitRace /\ [][NextRace]_vars /\ WF_vars(Tick)

\* C19: eventual correctness under any interleaving of read-through calls,
\* mutations and invalidation events.  An entry that differs from the
\* backing store's value is eventually absent or replaced by it, and once
\* the mutations have stopped and the calls that read before the last one
\* have stored, the cache stays free of stale entries; an entry set with
\* ttl 1 is absent a second later.
C19_EventuallyFresh ==
    /\ Stale(store, op.count) ~> ~Stale(store, op.count)
    /\ <>[]~Stale(store, op.count)
    /\ [](\A k \in DOMAIN store : store[k].ttl = 1 => ~Present(Aged(store), k))

\* a stale entry was removed by the passing of time alone, after the last
\* mutation, with no event left to handle
C19_Witness ==
    /\ op.kind = "tick" /\ op.was
    /\ calls = MaxCalls /\ op.rcalls = 0
    /\ ~Present(store, RaceKey)

(***************************************************************************)
(* The cache warmer                                                        *)
(***************************************************************************)
PricesTtl == 60
AnalyticsTtl == 300
SentimentTtl == 600
MarketSummaryTtl == 300
TrendingCoinsTtl == 600
CACHE_TTLS ==
    [prices |-> PricesTtl, analytics |-> AnalyticsTtl,
     sentiment |-> SentimentTtl, market_summary |-> MarketSummaryTtl,
     trending_coins |-> TrendingCoinsTtl]

\* the popular coins that occur in the modelled tables, in coin_id order
POPULAR_COINS == <<"bitcoin", "ethereum">>
CoinRank(c) == CHOOSE i \in 1..Len(POPULAR_COINS) : POPULAR_COINS[i] = c
\* the payload cached for a row: the JSON of its fields
RowJson(r) == "{\"timestamp\": " \o ToString(r.ts) \o "}"

\* rows of a table: [coin, metric, ts]
Row(c, m, t) == [coin |-> c, metric |-> m, ts |-> t]
\* a variant of the query that orders the timestamps ascending
RowBefore_asc(a, b) ==
    \/ CoinRank(a.coin) < CoinRank(b.coin)
    \/ a.coin = b.coin /\ a.ts < b.ts
\* ORDER BY coin_id, timestamp DESC
RowBefore(a, b) ==
    \/ CoinRank(a.coin) < CoinRank(b.coin)
    \/ a.coin = b.coin /\ a.ts > b.ts
RECURSIVE OrderRows(_)
OrderRows(S) ==
    IF S = {} THEN <<>>
    ELSE LET first == CHOOSE r \in S : \A q \in S : ~RowBefore(q, r)
         IN  <<first>> \o OrderRows(S \ {first})

\* "group by ... and get latest": the first row of each group, in the order
\* the groups first occur
RECURSIVE FirstPerGroup(_, _)
FirstPerGroup(rows, seen) ==
    IF rows = <<>> THEN <<>>
    ELSE LET g == <<Head(rows).coin, Head(rows).metric>>
         IN  IF g \in seen THEN FirstPerGroup(Tail(rows), seen)
             ELSE <<Head(rows)>> \o FirstPerGroup(Tail(rows), seen \cup {g})

PriceKey(r) == <<"price", ":", r.coin, ":", "latest">>
AnalyticsKey(r) == <<"analytics", ":", r.coin, ":", r.metric, ":", "latest">>
SentimentKey(r) == <<"sentiment", ":", r.coin, ":", "latest">>
MarketSummaryKey == <<"market", ":", "summary", ":", "global">>
TrendingKey == <<"market", ":", "trending">>
\* the key a per-category loop writes for a row
WarmKey(category, r) ==
    CASE category = "prices" -> PriceKey(r)
      [] category = "analytics" -> AnalyticsKey(r)
      [] OTHER -> SentimentKey(r)

\* the loops "for ... in ..._map.items(): setex(...); cached_count += 1";
\* a failing setex ends the loop with the exception
RECURSIVE CacheEach(_, _, _, _, _, _, _)
CacheEach(st, rows, category, ttl, cached_count, fault, rc) ==
    IF rows = <<>>
    THEN [store |-> st, count |-> cached_count, rcalls |-> rc, failed |-> FALSE]
    ELSE IF Fails(fault, rc + 1)
    THEN [store |-> st, count |-> cached_count, rcalls |-> rc + 1,
          failed |-> TRUE]
    ELSE CacheEach(RedisSetex(st, WarmKey(category, Head(rows)), ttl,
                              RowJson(Head(rows))),
                   Tail(rows), category, ttl, cached_count + 1, fault, rc + 1)

\* the backing store's tables the warmer reads
PriceTables ==
    {{}, {Row("bitcoin", "", 1), Row("bitcoin", "", 2), Row("ethereum", "", 1)}}
AnalyticsTables ==
    {{}, {Row("bitcoin", "SMA", 1), Row("bitcoin", "SMA", 2),
          Row("bitcoin", "RSI", 1), Row("ethereum", "SMA", 1)}}
SentimentTables ==
    {{}, {Row("bitcoin", "", 2), Row("bitcoin", "", 1), Row("ethereum", "", 2)}}
\* the rows a per-category method caches from a table: the latest row of
\* each group of the ordered query result
LatestRows ==
    [table \in PriceTables \cup AnalyticsTables \cup SentimentTables |->
        FirstPerGroup(OrderRows(table), {})]


\* what a per-category method returns; raised tells that an exception left it
WarmResult(st, count, rc, log, raised) ==
    [store |-> st, count |-> count, rcalls |-> rc, log |-> log,
     raised |-> raised]

\* CacheWarmer.warm_prices
warm_prices(st, table, dbFails, fault, rc) ==
    LET r == CacheEach(st, LatestRows[table], "prices",
                       CACHE_TTLS.prices, 0, fault, rc)
    IN  IF dbFails
        THEN WarmResult(st, 0, rc, {"Error warming prices cache"}, FALSE)
        ELSE IF r.failed
        THEN WarmResult(r.store, 0, r.rcalls,
                        {"Error warming prices cache"}, FALSE)
        ELSE WarmResult(r.store, r.count, r.rcalls, {}, FALSE)

\* CacheWarmer.warm_analytics
warm_analytics(st, table, dbFails, fault, rc) ==
    LET r == CacheEach(st, LatestRows[table], "analytics",
                       CACHE_TTLS.analytics, 0, fault, rc)
    IN  IF dbFails
        THEN WarmResult(st, 0, rc, {"Error warming analytics cache"}, FALSE)
        ELSE IF r.failed
        THEN WarmResult(r.store, 0, r.rcalls,
                        {"Error warming analytics cache"}, FALSE)
        ELSE WarmResult(r.store, r.count, r.rcalls, {}, FALSE)

\* a variant of warm_sentiment's handler that lets the exception out
SentimentFailed_propagates(st, rc) ==
    WarmResult(st, 0, rc, {}, TRUE)

\* lines 262-264: the exception is logged and 0 is returned
SentimentFailed(st, rc) ==
    WarmResult(st, 0, rc, {"Error warming sentiment cache"}, FALSE)

\* CacheWarmer.warm_sentiment
warm_sentiment(st, table, dbFails, fault, rc) ==
    LET r == CacheEach(st, LatestRows[table], "sentiment",
                       CACHE_TTLS.sentiment, 0, fault, rc)
    IN  IF dbFails THEN SentimentFailed(st, rc)
        ELSE IF r.failed THEN SentimentFailed(r.store, r.rcalls)
        ELSE WarmResult(r.store, r.count, r.rcalls, {}, FALSE)

\* LIMIT 10 of the trending query
TrendingLimit == 10
Min(a, b) == IF a < b THEN a ELSE b

\* CacheWarmer.warm_trending_coins: one entry holding the list; the count is
\* the length of the list
warm_trending_coins(st, table, dbFails, fault, rc) ==
    IF dbFails
    THEN WarmResult(st, 0, rc, {"Error warming trending coins"}, FALSE)
    ELSE IF Fails(fault, rc + 1)
    THEN WarmResult(st, 0, rc + 1, {"Error warming trending coins"}, FALSE)
    ELSE WarmResult(RedisSetex(st, TrendingKey, CACHE_TTLS.trending_coins, "[]"),
                    Min(Cardinality(table), TrendingLimit), rc + 1, {}, FALSE)

\* CacheWarmer.warm_market_summary: count 1 stands for True, 0 for False
warm_market_summary(st, table, dbFails, fault, rc) ==
    IF dbFails
    THEN WarmResult(st, 0, rc, {"Error warming market summary"}, FALSE)
    ELSE IF Fails(fault, rc + 1)
    THEN WarmResult(st, 0, rc + 1, {"Error warming market summary"}, FALSE)
    ELSE WarmResult(RedisSetex(st, MarketSummaryKey,
                               CACHE_TTLS.market_summary, "{}"),
                    1, rc + 1, {}, FALSE)

Categories == {"prices", "analytics", "sentiment", "trending", "market_summary"}
\* CacheWarmer.warm_all: the five methods in the order of the code; an
\* exception that leaves a method leaves warm_all at that point
warm_all(st, db, down, fault) ==
    LET p == warm_prices(st, db.prices, "prices" \in down, fault, 0)
        a == warm_analytics(p.store, db.analytics, "analytics" \in down,
                            fault, p.rcalls)
        s == warm_sentiment(a.store, db.sentiment, "sentiment" \in down,
                            fault, a.rcalls)
        t == warm_trending_coins(s.store, db.prices, "trending" \in down,
                                 fault, s.rcalls)
        m == warm_market_summary(t.store, db.prices,
                                 "market_summary" \in down, fault, t.rcalls)
    IN  IF p.raised
        THEN [store |-> p.store, res |-> NoResults, raised |-> TRUE,
              log |-> p.log, rcalls |-> p.rcalls]
        ELSE IF a.raised
        THEN [store |-> a.store, res |-> NoResults, raised |-> TRUE,
              log |-> p.log \cup a.log, rcalls |-> a.rcalls]
        ELSE IF s.raised
        THEN [store |-> s.store, res |-> NoResults, raised |-> TRUE,
              log |-> p.log \cup a.log \cup s.log, rcalls |-> s.rcalls]
        ELSE IF t.raised
        THEN [store |-> t.store, res |-> NoResults, raised |-> TRUE,
              log |-> p.log \cup a.log \cup s.log \cup t.log,
              rcalls |-> t.rcalls]
        ELSE [store |-> m.store,
              res |-> [prices |-> p.count, analytics |-> a.count,
                       sentiment |-> s.count, trending |-> t.count,
                       market_summary |-> m.count],
              raised |-> m.raised,
              log |-> p.log \cup a.log \cup s.log \cup t.log \cup m.log,
              rcalls |-> m.rcalls]

Databases ==
    {db \in [prices : PriceTables, analytics : AnalyticsTables,
             sentiment : SentimentTables] :
        /\ db.prices = {} => db.analytics = {}
        /\ db.sentiment = {} => db.prices = {}}
\* the categories whose database query raises in a cycle
Outages == {{}, {"sentiment"}, {"prices", "trending", "market_summary"}}
\* backend faults of a cycle: one failing call, or the backend down
WarmFaults ==
    {NoFault} \cup [at : 1..(MaxFailAt + 5), mode : {"once"}]
    \cup {[at |-> 1, mode |-> "down"]}

\* one warming cycle
WarmAll ==
    \E db \in Databases, down \in Outages, fault \in WarmFaults :
        \E r \in {warm_all(store, db, down, fault)} :
            /\ store' = r.store
            /\ op' = [NoOp EXCEPT !.kind = "warm_all", !.res = r.res,
                        !.raised = r.raised, !.log = r.log,
                        !.rcalls = r.rcalls, !.db = db, !.down = down,
                        !.fault = fault]
            /\ UNCHANGED calls

\* the backend drops every warmed entry (all TTLs elapsed)
ExpireAll ==
    /\ store # EmptyStore
    /\ store' = EmptyStore
    /\ op' = [NoOp EXCEPT !.kind = "expire"]
    /\ UNCHANGED calls

NextWarm == WarmAll \/ ExpireAll
SpecWarm == Init /\ [][NextWarm]_vars

\* the number of entries a category caches from a table
Entities(table) == Len(LatestRows[table])

\* a cycle in which warming sentiment, and nothing else, fails: its query
\* raises, or one of its setex calls does
SentimentAloneFails(o) ==
    /\ o.kind = "warm_all"
    /\ \/ o.down = {"sentiment"} /\ o.fault = NoFault
       \/ /\ o.down = {}
          /\ o.fault.mode = "once"
          /\ o.fault.at > Entities(o.db.prices) + Entities(o.db.analytics)
          /\ o.fault.at <= Entities(o.db.prices) + Entities(o.db.analytics)
                              + Entities(o.db.sentiment)

\* C7: warmer category isolation.  When warming sentiment fails in a cycle
\* (and nothing else does), warm_all still returns, and the counts of
\* prices, analytics and trending are those of their tables (non-zero when
\* the table has rows), their entries being in the cache.
C7_WarmerIsolation ==
    SentimentAloneFails(op) =>
        /\ ~op.raised
        /\ op.log = {"Error warming sentiment cache"}
        /\ op.res.sentiment = 0
        /\ op.res.prices = Entities(op.db.prices)
        /\ op.res.analytics = Entities(op.db.analytics)
        /\ op.res.trending = Min(Cardinality(op.db.prices), TrendingLimit)
        /\ op.res.market_summary = 1
        /\ Present(store, TrendingKey)
        /\ \A r \in op.db.prices : Present(store, PriceKey(r))
        /\ \A r \in op.db.analytics : Present(store, AnalyticsKey(r))

\* a cycle in which only sentiment failed and the three other categories
\* returned non-zero counts
C7_Witness ==
    /\ SentimentAloneFails(op)
    /\ op.fault # NoFault
    /\ ~op.raised
    /\ op.res.prices = 2
    /\ op.res.analytics = 3
    /\ op.res.trending = 3
    /\ op.res.sentiment = 0

\* C12: every cache write carries a strictly positive TTL.  Every TTL of
\* the policy table, of the warmer's table, of SentimentStore and of the
\* decorator's inputs is positive, and no entry of the cache is without a
\* positive lifetime: a set with a non-positive ttl stores nothing.
C12_PositiveTtl ==
    /\ \A n \in DOMAIN CacheConfig : CacheConfig[n] > 0
    /\ \A c \in DOMAIN CACHE_TTLS : CACHE_TTLS[c] > 0
    /\ cache_ttl > 0
    /\ \A d \in Decorations : d.ttl > 0
    /\ \A k \in DOMAIN store : store[k].ttl > 0
    /\ (op.kind = "set" /\ op.ttl <= 0)
          => (op.result = PyBool(FALSE) /\ (~op.was => ~Present(store, op.key)))

\* a set with ttl 0 on a healthy backend was refused, while an entry
\* written by SentimentStore is in the cache
C12_Witness ==
    /\ op.kind = "set" /\ op.ttl = 0
    /\ op.result = PyBool(FALSE)
    /\ ~Present(store, op.key)
    /\ \E c \in SentimentCoins : Present(store, SentimentStoreKey(c))

\* the policy TTL of the data class of a warmed key
PolicyTtl(k) ==
    CASE k[1] = "price" -> CacheConfig.PRICE_TTL
      [] k[1] = "analytics" -> CacheConfig.ANALYTICS_TTL
      [] k[1] = "sentiment" -> CacheConfig.SENTIMENT_TTL
      [] OTHER -> 0

\* C13: every entry the warmer writes for prices, analytics and sentiment
\* carries the TTL the policy table assigns to its data class (10, 60 and
\* 300 seconds).
C13_WarmerUsesPolicyTtl ==
    \A k \in DOMAIN store :
        k[1] \in {"price", "analytics", "sentiment"}
            => store[k].ttl = PolicyTtl(k)

\* the row of r's entity with the greatest timestamp, and the entities of a
\* table
Newest(table, r) ==
    CHOOSE q \in table :
        /\ q.coin = r.coin /\ q.metric = r.metric
        /\ \A x \in table :
              (x.coin = r.coin /\ x.metric = r.metric) => x.ts <= q.ts
Groups(table) == {<<r.coin, r.metric>> : r \in table}

NextWarmInval == WarmAll \/ DispatchEvent \/ ExpireAll
SpecWarmInval == Init /\ [][NextWarmInval]_vars

\* the keys the warmer writes for a coin in a category
WarmedKeys(category, coin_id) ==
    {WarmKey(category, r) :
        r \in {q \in UNION (CASE category = "prices" -> PriceTables
                              [] category = "analytics" -> AnalyticsTables
                              [] OTHER -> SentimentTables) :
                  <<q.coin>> = coin_id}}

\* C25: after a price_update event for coin c was dispatched with the
\* backend answering, no price or analytics entry the warmer wrote for c is
\* left, and after a sentiment_update event for c no sentiment entry the
\* warmer wrote for c is left.
C25_WarmedEntriesInvalidated ==
    /\ CleanEvent(op, "price_update") =>
          \A k \in WarmedKeys("prices", op.args.coin_id)
                   \cup WarmedKeys("analytics", op.args.coin_id) :
              ~Present(store, k)
    /\ CleanEvent(op, "sentiment_update") =>
          \A k \in WarmedKeys("sentiment", op.args.coin_id) :
              ~Present(store, k)

(***************************************************************************)
(* Key construction from the CACHE_KEYS templates                          *)
(***************************************************************************)
\* a template is a sequence of literal text and {name} replacement fields
L(s) == [field |-> FALSE, s |-> s]
P(s) == [field |-> TRUE, s |-> s]
CACHE_KEYS ==
    [
     price |->
        <<L("price"), L(":"), P("coin_id")>>,
     analytics_moving_avg |->
        <<L("analytics"), L(":"), L("moving_average"), L(":"), P("coin_id"), L(":"), P("period")>>,
     analytics_volatility |->
        <<L("analytics"), L(":"), L("volatility"), L(":"), P("coin_id"), L(":"), P("period")>>,
     analytics_correlation |->
        <<L("analytics"), L(":"), L("correlation"), L(":"), P("coin_1"), L(":"), P("coin_2"), L(":"), P("period")>>,
     sentiment |->
        <<L("sentiment"), L(":"), P("coin_id")>>,
     sentiment_trend |->
        <<L("sentiment_trend"), L(":"), P("coin_id"), L(":"), P("period")>>,
     portfolio |->
        <<L("portfolio"), L(":"), P("user_id"), L(":"), P("portfolio_id")>>,
     portfolio_perf |->
        <<L("portfolio_perf"), L(":"), P("user_id"), L(":"), P("portfolio_id")>>,
     user |->
        <<L("user"), L(":"), P("user_id")>>,
     session |->
        <<L("session"), L(":"), P("session_id")>>,
     token_blacklist |->
        <<L("token"), L(":"), P("token_hash")>>,
     coins_top |->
        <<L("coins"), L(":"), L("top"), L(":"), P("n")>>,
     news |->
        <<L("news"), L(":"), P("coin_id"), L(":"), P("source")>>,
     rate_limit |->
        <<L("rate_limit"), L(":"), P("endpoint"), L(":"), P("user_id")>>
    ]

\* the keyword arguments of a call site, in the order they are written:
\* a sequence of <<name, value>> without a repeated name
ArgNames == {"coin_id", "period", "user_id"}
ArgValueOf ==
    [n \in ArgNames |->
        CASE n = "coin_id" -> {PyStr("ethereum"), PyStr("bitcoin")}
          [] n = "period" -> {PyInt("20")}
          [] OTHER -> {PyStr("42")}]
NamedArgs == UNION {{<<n, v>> : v \in ArgValueOf[n]} : n \in ArgNames}
MaxKwargs == 3
KwargSeqs ==
    {a \in UNION {[1..n -> NamedArgs] : n \in 0..MaxKwargs} :
        \A i, j \in 1..Len(a) : a[i][1] = a[j][1] => i = j}

\* the dict Python builds from the keyword arguments
KwDict(argseq) ==
    [n \in {argseq[i][1] : i \in 1..Len(argseq)} |->
        (CHOOSE i \in 1..Len(argseq) : argseq[i][1] = n)]

\* a variant of format that fills the fields in the order of the call site
RECURSIVE Format_positional(_, _)
Format_positional(template, argseq) ==
    IF template = <<>> THEN [ok |-> TRUE, key |-> <<>>]
    ELSE IF ~Head(template).field
    THEN LET rest == Format_positional(Tail(template), argseq)
         IN  [ok |-> rest.ok,
              key |-> IF rest.ok THEN <<Head(template).s>> \o rest.key
                      ELSE <<>>]
    ELSE IF argseq = <<>> THEN [ok |-> FALSE, key |-> <<>>]
    ELSE LET rest == Format_positional(Tail(template), Tail(argseq))
         IN  [ok |-> rest.ok,
              key |-> IF rest.ok THEN <<PyToStr(Head(argseq)[2])>> \o rest.key
                      ELSE <<>>]

\* str.format(**kwargs): each field is replaced by str() of the argument of
\* that name, a field without an argument is a KeyError, an argument without
\* a field is ignored
RECURSIVE Format(_, _)
Format(template, argseq) ==
    IF template = <<>> THEN [ok |-> TRUE, key |-> <<>>]
    ELSE LET h == Head(template)
             kw == KwDict(argseq)
             rest == Format(Tail(template), argseq)
         IN  IF h.field /\ h.s \notin DOMAIN kw
             THEN [ok |-> FALSE, key |-> <<>>]
             ELSE [ok |-> rest.ok,
                   key |-> IF ~rest.ok THEN <<>>
                           ELSE IF h.field
                           THEN <<PyToStr(argseq[kw[h.s]][2])>> \o rest.key
                           ELSE <<h.s>> \o rest.key]

\* CACHE_KEYS[entity_type].format(**kwargs)
BuildKey(entity_type, argseq) ==
    IF entity_type \notin DOMAIN CACHE_KEYS
    THEN [ok |-> FALSE, key |-> <<>>]
    ELSE Format(CACHE_KEYS[entity_type], argseq)

EntityInputs == DOMAIN CACHE_KEYS \cup {"orderbook"}

\* a key is built at a call site
BuildKeyCall ==
    \E entity_type \in EntityInputs, argseq \in KwargSeqs :
        \E r \in {BuildKey(entity_type, argseq)} :
            /\ op' = [NoOp EXCEPT !.kind = "build_key", !.fn = entity_type,
                        !.args = argseq, !.key = r.key, !.raised = ~r.ok]
            /\ UNCHANGED <<store, calls>>

SpecKeys == Init /\ [][BuildKeyCall]_vars

\* the names of the replacement fields of a template
Fields(template) ==
    {template[i].s : i \in {j \in 1..Len(template) : template[j].field}}
\* the set of <<name, value>> a call passes, whatever the order
Passed(argseq) == {argseq[i] : i \in 1..Len(argseq)}

\* C9: key construction is a deterministic function of the entity type and
\* the parameter values with a fixed per-type parameter order: two calls
\* that pass the same named parameters in any order build identical keys,
\* and analytics_moving_avg with coin_id=ethereum, period=20 gives exactly
\* analytics:moving_average:ethereum:20.
C9_KeyDeterministic ==
    [][op'.kind = "build_key" =>
        /\ (/\ op.kind = "build_key" /\ op.fn = op'.fn
            /\ Passed(op.args) = Passed(op'.args))
            => (op'.key = op.key /\ op'.raised = op.raised)
        /\ (/\ op'.fn = "analytics_moving_avg"
            /\ Passed(op'.args) = {<<"coin_id", PyStr("ethereum")>>,
                                   <<"period", PyInt("20")>>})
            => (/\ ~op'.raised
                /\ op'.key = <<"analytics", ":", "moving_average", ":",
                               "ethereum", ":", "20">>)]_vars

\* the moving-average key built from period=20, coin_id=ethereum, passed in
\* the order opposite to the template's
C9_Witness ==
    /\ op.kind = "build_key"
    /\ op.fn = "analytics_moving_avg"
    /\ op.args = << <<"period", PyInt("20")>>, <<"coin_id", PyStr("ethereum")>> >>
    /\ op.key = <<"analytics", ":", "moving_average", ":", "ethereum", ":", "20">>

\* C10: key construction rejects bad specifications: an unknown entity type,
\* a missing required parameter or an extra parameter that is not in the
\* type's parameter set fails with an error and produces no key.
C10_RejectsBadSpecs ==
    op.kind = "build_key" =>
        LET names == {op.args[i][1] : i \in 1..Len(op.args)}
            bad == \/ op.fn \notin DOMAIN CACHE_KEYS
                   \/ names # Fields(CACHE_KEYS[op.fn])
        IN  bad => (op.raised /\ op.key = <<>>)

\* ---------------------------------------------------------------------
\* The warming loop (run_warming_cycle).  op.mode is the position of the
\* background task, op.log the connections the warmer holds, op.count the
\* minutes left to sleep, op.raised whether the last cycle raised, op.was
\* whether the task was cancelled, calls the cycles started (saturating).
\* ---------------------------------------------------------------------
interval_minutes == 5
WarmerConnections == {"redis", "http_client"}
InLoop == {"cycle", "sleeping"}

InitLoop ==
    /\ store = EmptyStore
    /\ op = [NoOp EXCEPT !.kind = "loop", !.mode = "connecting"]
    /\ calls = 0

\* a variant in which the cycle's exception leaves the loop
AfterCycle_propagates(raised) == IF raised THEN "closing" ELSE "sleeping"
\* try: await warmer.warm_all(..) except Exception: log; then the sleep
AfterCycle(raised) == "sleeping"

\* await warmer.connect() returned: both clients are held, the loop starts
ConnectOk ==
    /\ op.mode = "connecting"
    /\ op' = [op EXCEPT !.mode = "cycle", !.log = WarmerConnections]
    /\ calls' = 1
    /\ UNCHANGED store

\* connect() logs and re-raises; the call is outside the try, so the task
\* ends with the exception and holds no client
ConnectFails ==
    /\ op.mode = "connecting"
    /\ op' = [op EXCEPT !.mode = "crashed", !.raised = TRUE]
    /\ UNCHANGED <<store, calls>>

\* the cycle's warm_all completes, by returning or by raising
FinishCycle ==
    /\ op.mode = "cycle"
    /\ \E db \in Databases, fault \in {NoFault, [at |-> 1, mode |-> "down"]} :
         \E r \in {warm_all(store, db, {}, fault)} :
           \E raised \in {r.raised, TRUE} :
             /\ store' = r.store
             /\ op' = [op EXCEPT !.mode = AfterCycle(raised),
                                 !.raised = raised,
                                 !.count = IF AfterCycle(raised) = "sleeping"
                                           THEN interval_minutes ELSE 0]
    /\ UNCHANGED calls

\* a minute of asyncio.sleep(interval_minutes * 60) passes
SleepMinute ==
    /\ op.mode = "sleeping" /\ op.count > 0
    /\ op' = [op EXCEPT !.count = @ - 1]
    /\ UNCHANGED <<store, calls>>

\* the sleep returns and the while loop starts the next cycle
NextCycle ==
    /\ op.mode = "sleeping" /\ op.count = 0
    /\ op' = [op EXCEPT !.mode = "cycle"]
    /\ calls' = Min(calls + 1, MaxCalls + 1)
    /\ UNCHANGED store

\* task.cancel(): CancelledError is raised at the await the task is
\* suspended in; inside the loop it reaches except asyncio.CancelledError
Cancel ==
    /\ op.mode \in {"connecting"} \cup InLoop
    /\ op' = [op EXCEPT !.was = TRUE,
                        !.mode = IF op.mode = "connecting"
                                 THEN "crashed" ELSE "closing"]
    /\ UNCHANGED <<store, calls>>

\* finally: await warmer.disconnect()
Disconnect ==
    /\ op.mode = "closing"
    /\ op' = [op EXCEPT !.mode = "ended", !.log = {}]
    /\ UNCHANGED <<store, calls>>

\* the warmed entries outlive their ttl while the task sleeps
SleepExpire ==
    /\ op.mode = "sleeping" /\ store # EmptyStore
    /\ store' = EmptyStore
    /\ UNCHANGED <<op, calls>>

NextLoop ==
    \/ ConnectOk \/ ConnectFails \/ FinishCycle \/ SleepMinute
    \/ NextCycle \/ Cancel \/ Disconnect \/ SleepExpire

\* the event loop resumes the task whenever the call it awaits completes
SpecLoop ==
    /\ InitLoop /\ [][NextLoop]_vars
    /\ WF_vars(ConnectOk \/ ConnectFails) /\ WF_vars(FinishCycle)
    /\ WF_vars(SleepMinute) /\ WF_vars(NextCycle) /\ WF_vars(Disconnect)

\* C24: once connected the task runs a cycle at once; every cycle, raising
\* or not, is followed by a full interval of sleep and then a further
\* cycle; the loop is left only by cancellation, and then the task ends
\* with both of the warmer's connections closed.
C24_WarmingLoop ==
    /\ [][/\ (op.mode = "connecting" /\ op'.mode \notin {"connecting", "crashed"})
               => op'.mode = "cycle"
          /\ (op.mode = "cycle" /\ op'.mode # "cycle" /\ ~op'.was)
               => (op'.mode = "sleeping" /\ op'.count = interval_minutes)
          /\ (op.mode = "sleeping" /\ op'.mode = "cycle") => op.count = 0
          /\ (op.mode \in InLoop /\ op'.mode \notin InLoop)
               => (op'.was /\ op'.mode = "closing")]_vars
    /\ (op.mode = "cycle") ~> (op.mode = "sleeping" \/ op.was)
    /\ (op.mode = "sleeping") ~> (op.mode = "cycle" \/ op.was)
    /\ (op.mode = "closing") ~> (op.mode = "ended")
    /\ [](op.mode = "ended" => (op.was /\ op.log = {}))

\* a further cycle is running after a cycle that raised
C24_Witness ==
    op.kind = "loop" /\ op.mode = "cycle" /\ op.raised /\ calls >= 2

\* ---------------------------------------------------------------------
\* Concurrent calls of one decorated function with the same arguments.
\* op.args[i] is the position of caller i in async_wrapper and the result
\* it holds, op.log the callers whose get missed, op.invoked the calls of
\* the function made, op.count the setex calls made, op.rcalls the caller
\* that wrote last, calls the further calls started.
\* ---------------------------------------------------------------------
Callers == {1, 2}
FlightKey == <<"price", ":", "bitcoin">>
FlightTtl == 300
InitFlight ==
    /\ store = EmptyStore
    /\ op = [NoOp EXCEPT !.kind = "flight",
                         !.args = [i \in Callers |-> IdleReader]]
    /\ calls = 0

\* a variant of the wrapper that computes only when no other call of the
\* key is between its miss and its store
MayCompute_single(args, i) ==
    \A j \in Callers \ {i} : args[j].pc \notin {"missed", "computed"}
\* cache.py:81-87: nothing is acquired between the miss and the call
MayCompute(args, i) == TRUE

\* cache.py:75-79: the get; a hit returns the deserialized entry
FlightGet(i) ==
    /\ op.args[i].pc = "idle"
    /\ op' = [op EXCEPT !.kind = "flight_get",
                !.hit = Present(store, FlightKey),
                !.log = IF Present(store, FlightKey) THEN @ \ {i}
                        ELSE @ \cup {i},
                !.args[i] = IF Present(store, FlightKey)
                            THEN [pc |-> "returned", val |-> store[FlightKey].val]
                            ELSE [pc |-> "missed", val |-> ""]]
    /\ UNCHANGED <<store, calls>>

\* cache.py:87: the function is awaited; its results are told apart by the
\* number of the invocation
FlightCompute(i) ==
    /\ op.args[i].pc = "missed"
    /\ MayCompute(op.args, i)
    /\ op' = [op EXCEPT !.kind = "flight_compute", !.invoked = @ + 1,
                !.args[i] = [pc |-> "computed",
                             val |-> VersionText(op.invoked + 1)]]
    /\ UNCHANGED <<store, calls>>

\* cache.py:90-102: the result is stored and returned
FlightStore(i) ==
    /\ op.args[i].pc = "computed"
    /\ store' = RedisSetex(store, FlightKey, FlightTtl, op.args[i].val)
    /\ op' = [op EXCEPT !.kind = "flight_store", !.count = @ + 1,
                !.rcalls = i, !.args[i].pc = "returned"]
    /\ UNCHANGED calls

\* a caller that has its result calls again
FlightAgain(i) ==
    /\ op.args[i].pc = "returned" /\ calls < MaxCalls
    /\ calls' = calls + 1
    /\ op' = [op EXCEPT !.kind = "flight_again", !.log = @ \ {i},
                !.args[i] = IdleReader]
    /\ UNCHANGED store

\* the entry's ttl runs out
FlightExpire ==
    /\ Present(store, FlightKey)
    /\ store' = EmptyStore
    /\ op' = [op EXCEPT !.kind = "flight_expire"]
    /\ UNCHANGED calls

FlightStep(i) == FlightGet(i) \/ FlightCompute(i) \/ FlightStore(i)
NextFlight ==
    \/ \E i \in Callers : FlightGet(i)
    \/ \E i \in Callers : FlightCompute(i)
    \/ \E i \in Callers : FlightStore(i)
    \/ \E i \in Callers : FlightAgain(i)
    \/ FlightExpire
SpecFlight == InitFlight /\ [][NextFlight]_vars

\* C26: the wrapper has no single-flight protection.  A call that has not
\* returned can always take its next step, whatever the other call is
\* doing, so no interleaving blocks a caller; and every call that missed
\* invokes the function itself: as many invocations and writes were made as
\* calls went past their miss.
C26_NoSingleFlight ==
    /\ \A i \in Callers : op.args[i].pc # "returned" => ENABLED FlightStep(i)
    /\ (calls = 0 /\ \A i \in Callers : op.args[i].pc = "returned")
          => (op.invoked = Cardinality(op.log) /\ op.count = op.invoked)

\* both calls missed the absent key, the function ran twice, both wrote the
\* key, and the entry is the result of the call that wrote last
C26_Witness ==
    /\ op.kind = "flight_store" /\ calls = 0
    /\ op.log = Callers /\ op.invoked = 2 /\ op.count = 2
    /\ \A i \in Callers : op.args[i].pc = "returned"
    /\ store[FlightKey].val = op.args[op.rcalls].val
    /\ \E i \in Callers : op.args[i].val # store[FlightKey].val

\* ---------------------------------------------------------------------
\* The invalidate_cache decorator (cache.py:118-158).  op.was tells that the
\* wrapped function raised, op.arg is what it returned, op.mode whether it
\* is a coroutine function, op.stub whether redis_client was passed.
\* ---------------------------------------------------------------------
DecoratedPatterns ==
    {<<"portfolio_perf", ":", "4", "2", ":", "*">>, <<"user", ":", "4", "2">>}
DecorKeys == {InvalKeyList[i] : i \in {1, 2, 5, 7}}
\* `"*" in key_pattern`
HasWildcard(key_pattern) ==
    \E i \in 1..Len(key_pattern) : key_pattern[i] = "*"

\* a variant in which a failing deletion leaves the wrapper
InvalidationFailed_propagates(st, f, rc) ==
    [store |-> st, result |-> PyNone, raised |-> TRUE, rcalls |-> rc,
     log |-> {}]
\* lines 151-154: the exception of the deletion is logged and the result
\* of the function returned
InvalidationFailed(st, f, rc) ==
    [store |-> st, result |-> f.ret, raised |-> FALSE, rcalls |-> rc,
     log |-> {"Failed to invalidate cache"}]

\* lines 131-154.  The wrapper awaits func(..) whatever func is: the value
\* a plain function returns cannot be awaited, and the TypeError leaves the
\* wrapper after the function has run.
invalidating_wrapper(st, f, key_pattern, withRedis, fault) ==
    IF f.raises \/ ~f.isAsync
    THEN [store |-> st, result |-> PyNone, raised |-> TRUE, rcalls |-> 0,
          log |-> {}]
    ELSE IF ~withRedis
    THEN [store |-> st, result |-> f.ret, raised |-> FALSE, rcalls |-> 0,
          log |-> {}]
    ELSE IF HasWildcard(key_pattern)
    THEN LET r == DeleteLoop(st, key_pattern, 0, 0, fault, 0)
         IN  IF r.failed THEN InvalidationFailed(r.store, f, r.rcalls)
             ELSE [store |-> r.store, result |-> f.ret, raised |-> FALSE,
                   rcalls |-> r.rcalls, log |-> {}]
    ELSE IF Fails(fault, 1) THEN InvalidationFailed(st, f, 1)
    ELSE [store |-> RedisDelete(st, {key_pattern}), result |-> f.ret,
          raised |-> FALSE, rcalls |-> 1, log |-> {}]

\* one call of a function decorated with @invalidate_cache(key_pattern)
InvalidatingCall ==
    \E f \in Funcs, key_pattern \in DecoratedPatterns, withRedis \in BOOLEAN,
       fault \in Faults :
        \E r \in {invalidating_wrapper(store, f, key_pattern, withRedis, fault)} :
            /\ store' = r.store
            /\ op' = [NoOp EXCEPT !.kind = "invalidating_call",
                        !.fn = f.name, !.key = key_pattern, !.arg = f.ret,
                        !.was = f.raises,
                        !.mode = IF f.isAsync THEN "async" ELSE "sync",
                        !.stub = IF withRedis THEN "redis" ELSE "",
                        !.result = r.result, !.raised = r.raised,
                        !.rcalls = r.rcalls, !.log = r.log, !.invoked = 1]
            /\ UNCHANGED calls

\* some component writes an entry the decorated functions make stale
SeedDecor ==
    \E k \in DecorKeys :
        /\ ~Present(store, k)
        /\ store' = RedisSetex(store, k, 300, SeedValue)
        /\ op' = [NoOp EXCEPT !.kind = "seed", !.key = k]
        /\ UNCHANGED calls

NextDecor == InvalidatingCall \/ SeedDecor
SpecDecor == Init /\ [][NextDecor]_vars

\* C27: a call of a function decorated with invalidate_cache deletes keys
\* only when the function has returned without raising, and then only keys
\* of its pattern; when the function raises the cache is left as it was and
\* the exception propagates; when the function returned, its result is
\* returned whether the deletion succeeded or failed, and after a deletion
\* that did not fail no key of the pattern is left.
C27_InvalidateAfterSuccess ==
    [][op'.kind = "invalidating_call" =>
        /\ op'.invoked = 1
        /\ op'.was => (op'.raised /\ store' = store)
        /\ store' # store => (~op'.was /\ ~op'.raised)
        /\ \A k \in DOMAIN store \ Matching(store, op'.key) :
              Present(store', k) /\ store'[k] = store[k]
        /\ DOMAIN store' \subseteq DOMAIN store
        /\ (~op'.was /\ op'.mode = "async") =>
              (~op'.raised /\ op'.result = op'.arg)
        /\ (~op'.raised /\ op'.stub = "redis" /\ op'.log = {}) =>
              Matching(store', op'.key) = {}]_vars

\* the deletion failed, leaving keys of the pattern, and the function's
\* result was returned all the same
C27_Witness ==
    /\ op.kind = "invalidating_call" /\ ~op.was /\ ~op.raised
    /\ op.log # {} /\ op.result = op.arg /\ op.arg = PyStr("a")
    /\ HasWildcard(op.key) /\ Matching(store, op.key) # {}
    /\ op.rcalls = 2

\* ---------------------------------------------------------------------
\* SentimentStore over a database session and the cache.  op.db.sentiment
\* holds the committed rows, op.args the rows the session has flushed but
\* not committed, calls the rows created so far (a row's timestamp).
\* op.invoked counts the queries an operation made, op.rcalls its cache
\* calls, op.mode the form of what it returned.
\* ---------------------------------------------------------------------
StoreCoins == {"bitcoin", "ethereum"}
\* json.dumps of the fields _cache_sentiment writes
SentimentJson(r) ==
    "{\"coin_id\": \"" \o r.coin \o "\", \"timestamp\": " \o ToString(r.ts) \o "}"
\* order_by(desc(timestamp)).limit(1)
LatestOf(rows) == CHOOSE r \in rows : \A q \in rows : q.ts <= r.ts

InitSentiment ==
    /\ store = EmptyStore
    /\ op = [NoOp EXCEPT !.kind = "sentiment_store", !.args = {}]
    /\ calls = 0

\* save_sentiment: add, flush, refresh, then cache; a database error rolls
\* the session back and is raised again
save_sentiment(st, pending, coin_id, ts, withRedis, fault, dbFails) ==
    IF dbFails
    THEN [store |-> st, pending |-> {}, raised |-> TRUE, rcalls |-> 0,
          log |-> {"Error saving sentiment"}]
    ELSE LET sentiment == Row(coin_id, "", ts)
             c == cache_sentiment(st, coin_id, SentimentJson(sentiment),
                                  withRedis, fault, 0)
         IN  [store |-> c.store, pending |-> pending \cup {sentiment},
              raised |-> FALSE, rcalls |-> c.rcalls, log |-> c.log]

\* _get_cached_sentiment: the decoded entry, or None without a client, on a
\* miss and on an error
get_cached_sentiment(st, coin_id, withRedis, fault) ==
    IF ~withRedis THEN [found |-> FALSE, val |-> "", rcalls |-> 0, log |-> {}]
    ELSE IF Fails(fault, 1)
    THEN [found |-> FALSE, val |-> "", rcalls |-> 1,
          log |-> {"Error getting cached sentiment"}]
    ELSE IF Present(st, SentimentStoreKey(coin_id))
    THEN [found |-> TRUE, val |-> st[SentimentStoreKey(coin_id)].val,
          rcalls |-> 1, log |-> {}]
    ELSE [found |-> FALSE, val |-> "", rcalls |-> 1, log |-> {}]

\* a variant that never takes the cached value
SentimentHit_never(cached) == FALSE
\* `if cached: return cached`
SentimentHit(cached) == cached.found

\* get_latest_sentiment
get_latest_sentiment(st, rows, coin_id, withRedis, fault, dbFails) ==
    LET cached == get_cached_sentiment(st, coin_id, withRedis, fault)
        mine == {r \in rows : r.coin = coin_id}
    IN  IF SentimentHit(cached)
        THEN [store |-> st, result |-> PyStr(cached.val), mode |-> "dict",
              invoked |-> 0, rcalls |-> cached.rcalls, log |-> cached.log]
        ELSE IF dbFails
        THEN [store |-> st, result |-> PyNone, mode |-> "none", invoked |-> 1,
              rcalls |-> cached.rcalls,
              log |-> cached.log \cup {"Error getting sentiment"}]
        ELSE IF mine = {}
        THEN [store |-> st, result |-> PyNone, mode |-> "none", invoked |-> 1,
              rcalls |-> cached.rcalls, log |-> cached.log]
        ELSE LET c == cache_sentiment(st, coin_id, SentimentJson(LatestOf(mine)),
                                      withRedis, fault, cached.rcalls)
             IN  [store |-> c.store,
                  result |-> PyStr(SentimentJson(LatestOf(mine))),
                  mode |-> "row", invoked |-> 1, rcalls |-> c.rcalls,
                  log |-> cached.log \cup c.log]

SaveSentiment ==
    \E coin_id \in StoreCoins, withRedis \in BOOLEAN, fault \in OneCallFaults,
       dbFails \in BOOLEAN :
        \E r \in {save_sentiment(store, op.args, coin_id, calls + 1, withRedis,
                                fault, dbFails)} :
            /\ calls < MaxCalls
            /\ calls' = calls + 1
            /\ store' = r.store
            /\ op' = [NoOp EXCEPT !.kind = "save_sentiment",
                        !.db = op.db, !.args = r.pending,
                        !.key = SentimentStoreKey(coin_id),
                        !.raised = r.raised, !.rcalls = r.rcalls,
                        !.log = r.log, !.was = dbFails,
                        !.stub = IF withRedis THEN "redis" ELSE ""]

GetLatestSentiment ==
    \E coin_id \in StoreCoins, withRedis \in BOOLEAN, fault \in Faults,
       dbFails \in BOOLEAN :
        \E r \in {get_latest_sentiment(store, op.db.sentiment \cup op.args,
                                      coin_id, withRedis, fault, dbFails)} :
            /\ store' = r.store
            /\ op' = [NoOp EXCEPT !.kind = "get_latest_sentiment",
                        !.db = op.db, !.args = op.args,
                        !.key = SentimentStoreKey(coin_id), !.fn = coin_id,
                        !.result = r.result, !.mode = r.mode,
                        !.invoked = r.invoked, !.rcalls = r.rcalls,
                        !.log = r.log, !.was = dbFails, !.fault = fault,
                        !.stub = IF withRedis THEN "redis" ELSE ""]
            /\ UNCHANGED calls

\* the caller commits the session (sentiment_scheduler.py:138)
CommitSession ==
    /\ op.args # {}
    /\ op' = [NoOp EXCEPT !.kind = "commit", !.args = {},
                !.db = [op.db EXCEPT !.sentiment = @ \cup op.args]]
    /\ UNCHANGED <<store, calls>>

\* the caller rolls the session back (sentiment_scheduler.py:140-142)
RollbackSession ==
    /\ op.args # {}
    /\ op' = [NoOp EXCEPT !.kind = "rollback", !.args = {}, !.db = op.db]
    /\ UNCHANGED <<store, calls>>

\* an entry's cache_ttl runs out
ExpireSentiment ==
    \E k \in DOMAIN store :
        /\ store' = RedisDelete(store, {k})
        /\ op' = [NoOp EXCEPT !.kind = "expire", !.args = op.args,
                    !.db = op.db, !.key = k]
        /\ UNCHANGED calls

NextSentiment ==
    \/ SaveSentiment \/ GetLatestSentiment \/ CommitSession
    \/ RollbackSession \/ ExpireSentiment
SpecSentiment == InitSentiment /\ [][NextSentiment]_vars

\* C28: while no transaction is open, every entry sentiment:c holds a
\* committed sentiment row of c; in particular a saved row whose
\* transaction was rolled back has left no entry.
C28_CacheHoldsCommitted ==
    op.args = {} =>
        \A c \in StoreCoins :
            Present(store, SentimentStoreKey(c)) =>
                \E r \in op.db.sentiment :
                    r.coin = c /\ store[SentimentStoreKey(c)].val = SentimentJson(r)

NoClient == 0
IdleCaller == [pc |-> "idle", client |-> NoClient]
InitRedis ==
    /\ store = EmptyStore
    /\ op = [NoOp EXCEPT !.kind = "redis_client",
                         !.args = [i \in Callers |-> IdleCaller]]
    /\ calls = 0

\* lines 35-36: a client is held, connect returns it
ConnectCached(i) ==
    /\ op.args[i].pc = "idle" /\ op.count # NoClient
    /\ op' = [op EXCEPT !.kind = "connect", !.raised = FALSE,
                        !.rcalls = op.count, !.hit = TRUE]
    /\ UNCHANGED <<store, calls>>

\* lines 38-58: a pool and a client are built, the client is stored in
\* _client and its ping awaited
ConnectNew(i) ==
    /\ op.args[i].pc = "idle" /\ op.count = NoClient
    /\ calls < MaxCalls + 1
    /\ calls' = calls + 1
    /\ op' = [op EXCEPT !.kind = "connect_ping", !.raised = FALSE,
                        !.count = calls + 1, !.rcalls = NoClient,
                        !.hit = FALSE,
                        !.args[i] = [pc |-> "pinging", client |-> calls + 1]]
    /\ UNCHANGED store

\* lines 59-61: the ping answered; self._client is returned
PingOk(i) ==
    /\ op.args[i].pc = "pinging"
    /\ op' = [op EXCEPT !.kind = "connect", !.raised = FALSE,
                        !.log = @ \cup {op.args[i].client},
                        !.rcalls = op.count, !.hit = FALSE,
                        !.args[i] = IdleCaller]
    /\ UNCHANGED <<store, calls>>

\* lines 63-65: the ping raised; the error is logged and raised again
PingFails(i) ==
    /\ op.args[i].pc = "pinging"
    /\ op' = [op EXCEPT !.kind = "connect", !.raised = TRUE,
                        !.rcalls = NoClient, !.hit = FALSE,
                        !.args[i] = IdleCaller]
    /\ UNCHANGED <<store, calls>>

\* lines 67-75: close, then forget the client; a failing close is logged
\* and the client kept
DisconnectClient ==
    \E closeFails \in BOOLEAN :
        /\ op.count # NoClient
        /\ op' = [op EXCEPT !.kind = "disconnect", !.raised = FALSE,
                            !.was = closeFails, !.hit = FALSE,
                            !.rcalls = NoClient,
                            !.count = IF closeFails THEN @ ELSE NoClient]
        /\ UNCHANGED <<store, calls>>

NextRedis ==
    \/ \E i \in Callers : ConnectCached(i)
    \/ \E i \in Callers : ConnectNew(i)
    \/ \E i \in Callers : PingOk(i)
    \/ \E i \in Callers : PingFails(i)
    \/ DisconnectClient
SpecRedis == InitRedis /\ [][NextRedis]_vars

\* C30: a connect that failed has left no client in the singleton; a
\* connect (or get_client) that returns without error returns a client
\* whose ping has succeeded; after a disconnect that closed the client no
\* client is held.
C30_NoFailedClientKept ==
    /\ (op.kind = "connect" /\ op.raised
          /\ \A i \in Callers : op.args[i].pc = "idle") => op.count = NoClient
    /\ (op.kind = "connect" /\ ~op.raised
          /\ \A i \in Callers : op.args[i].pc = "idle") => op.rcalls \in op.log
    /\ (op.kind = "disconnect" /\ ~op.was) => op.count = NoClient

====
